---- MODULE Spec2Model ----
(***************************************************************************)
(* Multi-item vendor quote requests of the emart backend: creation by the  *)
(* admin, token-gated read and price submission by the vendor, and the     *)
(* admin status update, as implemented in                                  *)
(*   src/controllers/vendorQuoteController.js                              *)
(*   src/models/VendorQuoteRequest.js                                      *)
(*   src/routes/vendorroutes.js                                            *)
(*                                                                         *)
(* Representation of JavaScript values                                     *)
(*   - a string is a sequence of one-character strings, so that trim(),    *)
(*     substring() and template concatenation are computed, not assumed;   *)
(*   - an optional value (undefined / null / value) is None or Some(x);    *)
(*   - requestedQty is a rational [n, d] (n/d), so that quantities between *)
(*     0 and 1 exist; prices are integers in minor currency units;         *)
(*   - a Date is a number of minutes on the model's clock `now`.           *)
(***************************************************************************)
EXTENDS Integers, Sequences, FiniteSets, TLC

VARIABLES
    requests,   \* the VendorQuoteRequest collection, in insertion order
    now,        \* the wall clock (minutes)
    calls,      \* the submitMultiItemQuote calls in flight, one per caller
    last,       \* the request and response of the step taken last
    quotes,     \* the VendorQuote collection (legacy single-item quotes)
    basket,     \* the BasketItem collection, read by submitQuote
    inflight,   \* the submitQuote calls in flight, one per caller
    ipSubmissionCache   \* the Map of trackIPSubmissions: ip -> timestamps (ms)

vars == <<requests, now, calls, last, quotes, basket, inflight, ipSubmissionCache>>

\* the state of the legacy quote store, left alone by the quote-request routes
legacyVars == <<quotes, basket, inflight>>

\* the state of the quote-request routes, left alone by the legacy routes
requestVars == <<requests, calls>>

-----------------------------------------------------------------------------
(* Bounds of the model *)

MaxRequests == 1
MaxCreated == 2
MaxTime == 2
NumCallers == 2
MaxVersion == 2
MaxTokenRequests == 2
MaxRateQuotes == 7
MaxLegacyTime == 90
LegacyStep == 30
MaxOrderRequests == 3
MaxByIdRequests == 2
MaxByIdQuotes == 2
MaxItemQuotes == 3
MaxStatusQuotes == 2
MaxLookupQuotes == 2
MaxTotalsRequests == 2
MaxTotalsQuotes == 1
MaxRaceQuotes == 6

(* Program constants *)

DefaultTokenExpiryMinutes == 60
MinRequestedQty == 1
RemarkMaxLength == 500
RateLimitThreshold == 5
RateWindowMinutes == 60
RetryAfterSeconds == 3600
MinItemIdLength == 5
MinVendorNameLength == 2
MaxVendorNameLength == 100
AdminNotesMaxLength == 1000
ProductNameMaxLength == 200
DefaultPageSize == 20
MaxPageSize == 100

-----------------------------------------------------------------------------
(* JavaScript values *)

None == <<>>
Some(x) == <<x>>

\* String.prototype.trim on a sequence of characters
RECURSIVE TrimLeft(_)
TrimLeft(s) == IF s # <<>> /\ Head(s) = " " THEN TrimLeft(Tail(s)) ELSE s

RECURSIVE TrimRight(_)
TrimRight(s) ==
    IF s # <<>> /\ s[Len(s)] = " " THEN TrimRight(SubSeq(s, 1, Len(s) - 1)) ELSE s

Trim(s) == TrimRight(TrimLeft(s))

\* String.prototype.substring(0, n)
Substring(s, n) == SubSeq(s, 1, IF Len(s) < n THEN Len(s) ELSE n)

\* truthiness of an optional string: undefined, null and '' are falsy
Truthy(o) == o # None /\ o[1] # <<>>

\* `x || ''`
OrEmpty(o) == IF Truthy(o) THEN o[1] ELSE <<>>

\* truthiness of an optional number n/d: undefined, null and 0 are falsy
NumTruthy(q) == q # None /\ q[1].n # 0

\* `${productId}::${variantId || ''}`
ItemKey(productId, variantId) == productId \o <<":", ":">> \o OrEmpty(variantId)

Statuses == {"pending", "submitted", "approved", "accepted", "rejected"}

-----------------------------------------------------------------------------
(* VendorQuoteRequest: schema validation and the token gate *)

\* a schema without the validator of the keys: C22_KeysDistinctAndFixed tells
\* it from NoDuplicateKeys
C22_NoKeyValidator(items) == TRUE

\* the second validator of `items`: no product/variant key occurs twice
NoDuplicateKeys(items) ==
    \A i, j \in 1..Len(items) :
        i < j => ItemKey(items[i].productId, items[i].variantId)
                   # ItemKey(items[j].productId, items[j].variantId)

\* validation of one embedded item
ItemSchemaValid(it) ==
    /\ it.productId # <<>>
    /\ it.requestedQty.d > 0
    /\ it.requestedQty.n >= MinRequestedQty * it.requestedQty.d
    /\ (it.vendorPrice # None => it.vendorPrice[1] >= 0)
    /\ (it.vendorRemark # None => Len(it.vendorRemark[1]) <= RemarkMaxLength)

\* validation run by create() and save()
SchemaValid(doc) ==
    /\ doc.orderId # <<>>
    /\ Len(doc.items) > 0
    /\ NoDuplicateKeys(doc.items)
    /\ \A i \in 1..Len(doc.items) : ItemSchemaValid(doc.items[i])
    /\ doc.status \in Statuses

\* a gate that forgets the expiry: C5_GateBeforeItems tells it from isTokenValid
C5_GateWithoutExpiry(doc, t) == doc.status # "submitted"

\* a gate that still admits the instant of expiry: C11_ExpiryGate tells it from
\* isTokenValid
C11_GateAtExpiry(doc, t) ==
    /\ doc.status # "submitted"
    /\ doc.tokenExpiresAt >= t

\* a gate that looks at the expiry alone: C28_GatesAgree tells it from
\* isTokenValid
C28_GateWithoutStatus(doc, t) == doc.tokenExpiresAt > t

isTokenValid(doc, t) ==
    /\ doc.status # "submitted"
    /\ doc.tokenExpiresAt > t

\* findOne({ token }): the token index is unique
FindByToken(token) ==
    IF \E i \in 1..Len(requests) : requests[i].token = token
    THEN Some(requests[CHOOSE i \in 1..Len(requests) : requests[i].token = token])
    ELSE None

-----------------------------------------------------------------------------
(* Requests and responses *)

NoBody == [orderId |-> None, items |-> None, tokenExpiryMinutes |-> None]

\* op: the handler; code: the HTTP status; msg: the message or discriminator of
\* the answer; token, id, arg, body, items: the request's parameters; request:
\* the document in the answer
Response(op, code, msg, token, id, arg, body, items, request) ==
    [op |-> op, code |-> code, msg |-> msg, token |-> token, id |-> id,
     arg |-> arg, body |-> body, items |-> items, request |-> request]

NoResponse(op) == Response(op, 0, "", 0, 0, "", NoBody, None, None)

\* a submitMultiItemQuote call: its parameters (token, items), its position
\* (idle: no call, found: findOne has answered, saving: save() is called) and
\* its local requestDoc as read (snap) and as handed to save() (upd)
IdleCall ==
    [pc |-> "idle", token |-> 0, items |-> None, snap |-> None, upd |-> None]

\* a submitQuote call that holds nothing: it has not arrived, or has answered
IdleSubmission == [pc |-> "idle", ip |-> "", body |-> <<>>]

Callers == 1..NumCallers

Init ==
    /\ requests = <<>>
    /\ now = 0
    /\ calls = [c \in Callers |-> IdleCall]
    /\ last = NoResponse("init")
    /\ quotes = <<>>
    /\ basket = {}
    /\ inflight = [c \in Callers |-> IdleSubmission]
    /\ ipSubmissionCache = [ip \in {"ip1", "ip2"} |-> None]

-----------------------------------------------------------------------------
(* POST /admin/vendor-quote-requests *)

\* the sanitizers of the route: orderId and every items[*].productId trimmed
SanitizeCreateBody(body) ==
    [body EXCEPT
        !.orderId = IF body.orderId = None THEN None ELSE Some(Trim(body.orderId[1])),
        !.items = IF body.items = None THEN None
                  ELSE Some([i \in 1..Len(body.items[1]) |->
                         [body.items[1][i] EXCEPT
                            !.productId = IF @ = None THEN None ELSE Some(Trim(@[1]))]])]

\* the loop over the items: the message of the first item that fails, or "ok"
RECURSIVE CheckCreateItems(_, _, _)
CheckCreateItems(items, i, seen) ==
    IF i > Len(items) THEN "ok"
    ELSE LET item == items[i] IN
         IF ~Truthy(item.productId)
         THEN "Each item must include a productId"
         ELSE IF ~NumTruthy(item.requestedQty) \/ item.requestedQty[1].n <= 0
         THEN "Each item must have requestedQty > 0"
         ELSE LET key == ItemKey(item.productId[1], item.variantId) IN
              IF key \in seen
              THEN "Duplicate product/variant combinations are not allowed"
              ELSE CheckCreateItems(items, i + 1, seen \cup {key})

CheckCreateBody(body) ==
    IF ~Truthy(body.orderId) \/ body.items = None \/ body.items[1] = <<>>
    THEN "orderId and at least one item are required"
    ELSE CheckCreateItems(body.items[1], 1, {})

NormalizeItem(it) ==
    [productId |-> Trim(it.productId[1]),
     variantId |-> IF Truthy(it.variantId) THEN Some(Trim(it.variantId[1])) ELSE None,
     requestedQty |-> it.requestedQty[1],
     vendorPrice |-> None,
     vendorRemark |-> None]

\* the _id of a new document: the ids of the process are all different
NextObjectId == Len(requests) + Len(quotes) + 1

NewRequest(body, id, t) ==
    [id |-> id,
     orderId |-> Trim(body.orderId[1]),
     items |-> [i \in 1..Len(body.items[1]) |-> NormalizeItem(body.items[1][i])],
     status |-> "pending",
     token |-> id,
     tokenExpiresAt |-> t + (IF body.tokenExpiryMinutes = None
                             THEN DefaultTokenExpiryMinutes
                             ELSE body.tokenExpiryMinutes[1]),
     submittedAt |-> None,
     createdAt |-> t,
     v |-> 0]

createMultiItemQuoteRequest(raw) ==
    LET body == SanitizeCreateBody(raw)
        err == CheckCreateBody(body)
        id == NextObjectId
    IN  /\ IF err # "ok"
           THEN /\ last' = Response("create", 400, err, 0, 0, "", raw, None, None)
                /\ UNCHANGED requests
           ELSE LET doc == NewRequest(body, id, now) IN
                IF ~SchemaValid(doc)
                THEN /\ last' = Response("create", 500, "Error creating quote request",
                                         0, 0, "", raw, None, None)
                     /\ UNCHANGED requests
                ELSE /\ requests' = Append(requests, doc)
                     /\ last' = Response("create", 201, "Vendor quote request created",
                                         doc.token, id, "", raw, None, Some(doc))
        /\ UNCHANGED <<now, calls, legacyVars, ipSubmissionCache>>

-----------------------------------------------------------------------------
(* GET /quote-request/:token *)

\* a lookup that reports the expiry before the submission: C8_GetByToken tells
\* it from getMultiItemQuoteByToken
C8_ExpiredFirst(token) ==
    LET found == FindByToken(token) IN
    /\ IF found = None
       THEN last' = Response("get", 404, "Quote request not found", token, 0, "",
                             NoBody, None, None)
       ELSE LET requestDoc == found[1]
                isExpired == requestDoc.tokenExpiresAt <= now
                alreadySubmitted == requestDoc.status = "submitted"
            IN  IF isExpired \/ alreadySubmitted
                THEN last' = Response("get", 410,
                                      IF isExpired THEN "expired" ELSE "submitted",
                                      token, requestDoc.id, "", NoBody, None, None)
                ELSE last' = Response("get", 200, "", token, requestDoc.id, "", NoBody,
                                      None, Some(requestDoc))
    /\ UNCHANGED <<requests, now, calls, legacyVars, ipSubmissionCache>>

getMultiItemQuoteByToken(token) ==
    LET found == FindByToken(token) IN
    /\ IF found = None
       THEN last' = Response("get", 404, "Quote request not found", token, 0, "",
                             NoBody, None, None)
       ELSE LET requestDoc == found[1]
                isExpired == requestDoc.tokenExpiresAt <= now
                alreadySubmitted == requestDoc.status = "submitted"
            IN  IF isExpired \/ alreadySubmitted
                THEN last' = Response("get", 410,
                                      IF alreadySubmitted THEN "submitted" ELSE "expired",
                                      token, requestDoc.id, "", NoBody, None, None)
                ELSE last' = Response("get", 200, "", token, requestDoc.id, "", NoBody,
                                      None, Some(requestDoc))
    /\ UNCHANGED <<requests, now, calls, legacyVars, ipSubmissionCache>>

-----------------------------------------------------------------------------
(* The clock *)

Tick ==
    /\ now < MaxTime
    /\ now' = now + 1
    /\ last' = NoResponse("tick")
    /\ UNCHANGED <<requests, calls, legacyVars, ipSubmissionCache>>

-----------------------------------------------------------------------------
(* POST /quote-request/:token/submit *)

\* Number(vendorPrice) is finite: a number, not NaN (a non-numeric value) and
\* not an infinity
IsFiniteNumber(price) == price.kind = "number"

\* a loop that lets a price of 0 through: C10_PriceGate tells it from
\* CheckSubmitItems
RECURSIVE C10_ZeroPriceAllowed(_, _)
C10_ZeroPriceAllowed(items, i) ==
    IF i > Len(items) THEN "ok"
    ELSE LET it == items[i] IN
         IF ~Truthy(it.productId)
         THEN "Each submitted item must include a productId"
         ELSE IF it.vendorPrice.kind \in {"undefined", "null"}
         THEN "Each submitted item must include vendorPrice"
         ELSE IF ~IsFiniteNumber(it.vendorPrice) \/ it.vendorPrice.n < 0
         THEN "vendorPrice must be greater than 0"
         ELSE C10_ZeroPriceAllowed(items, i + 1)

\* the loop over the submitted items: the message of the first item that fails
RECURSIVE CheckSubmitItems(_, _)
CheckSubmitItems(items, i) ==
    IF i > Len(items) THEN "ok"
    ELSE LET it == items[i] IN
         IF ~Truthy(it.productId)
         THEN "Each submitted item must include a productId"
         ELSE IF it.vendorPrice.kind \in {"undefined", "null"}
         THEN "Each submitted item must include vendorPrice"
         ELSE IF ~IsFiniteNumber(it.vendorPrice) \/ it.vendorPrice.n <= 0
         THEN "vendorPrice must be greater than 0"
         ELSE CheckSubmitItems(items, i + 1)

SubmittedKey(it) == ItemKey(it.productId[1], it.variantId)

\* priceMap: Map.set in payload order, so the last item of a key stays
PriceMapKeys(items) == {SubmittedKey(items[i]) : i \in 1..Len(items)}

PriceMapGet(items, key) ==
    LET i == CHOOSE k \in 1..Len(items) :
                 /\ SubmittedKey(items[k]) = key
                 /\ \A m \in 1..Len(items) : SubmittedKey(items[m]) = key => m <= k
    IN  [price |-> items[i].vendorPrice.n,
         remark |-> IF Truthy(items[i].vendorRemark)
                    THEN Some(Substring(Trim(items[i].vendorRemark[1]), RemarkMaxLength))
                    ELSE None]

\* a map that prices every stored item with the first submitted price:
\* C9_SubsetFrame tells it from ApplyPrices
C9_PriceEveryItem(existingItems, items) ==
    [i \in 1..Len(existingItems) |->
        [existingItems[i] EXCEPT !.vendorPrice = Some(items[1].vendorPrice.n)]]

\* a map that gives every submitted price a place, the first stored item
\* taking the price no item matches: C29_UnmatchedAccepted tells it from
\* ApplyPrices
C29_UnmatchedPriced(existingItems, items) ==
    [i \in 1..Len(existingItems) |->
        LET existing == existingItems[i]
            key == ItemKey(existing.productId, existing.variantId)
        IN  IF key \in PriceMapKeys(items)
            THEN [existing EXCEPT !.vendorPrice = Some(PriceMapGet(items, key).price),
                                  !.vendorRemark = PriceMapGet(items, key).remark]
            ELSE IF i = 1
            THEN [existing EXCEPT !.vendorPrice = Some(items[1].vendorPrice.n)]
            ELSE existing]

\* requestDoc.items.map(...)
ApplyPrices(existingItems, items) ==
    [i \in 1..Len(existingItems) |->
        LET existing == existingItems[i]
            key == ItemKey(existing.productId, existing.variantId)
        IN  IF key \notin PriceMapKeys(items)
            THEN existing
            ELSE [existing EXCEPT
                    !.vendorPrice = Some(PriceMapGet(items, key).price),
                    !.vendorRemark = PriceMapGet(items, key).remark]]

\* the call answers: its local variables go out of scope
Finish(c, code, msg, request) ==
    /\ calls' = [calls EXCEPT ![c] = IdleCall]
    /\ last' = Response("submit", code, msg, calls[c].token, 0, "", NoBody,
                        calls[c].items, request)

\* the request arrives: the items array is checked, then findOne({ token }) runs
SubmitFind(c, token, items) ==
    /\ calls[c].pc = "idle"
    /\ IF items = None \/ items[1] = <<>>
       THEN /\ calls' = calls
            /\ last' = Response("submit", 400, "Items array is required", token, 0, "",
                                NoBody, items, None)
       ELSE /\ calls' = [calls EXCEPT ![c] =
                    [IdleCall EXCEPT !.pc = "found", !.token = token, !.items = items,
                                     !.snap = FindByToken(token)]]
            /\ last' = NoResponse("findOne")
    /\ UNCHANGED <<requests, now, legacyVars, ipSubmissionCache>>

\* findOne has answered: the gate, the item checks and the in-memory update,
\* up to the call of save()
SubmitPrepare(c) ==
    /\ calls[c].pc = "found"
    /\ LET call == calls[c] IN
       IF call.snap = None
       THEN Finish(c, 404, "Quote request not found", None)
       ELSE LET requestDoc == call.snap[1] IN
            IF ~isTokenValid(requestDoc, now)
            THEN Finish(c, 410, IF requestDoc.status = "submitted"
                                THEN "Quote already submitted"
                                ELSE "Quote request has expired", None)
            ELSE LET err == CheckSubmitItems(call.items[1], 1) IN
                 IF err # "ok"
                 THEN Finish(c, 400, err, None)
                 ELSE /\ calls' = [calls EXCEPT ![c] = [@ EXCEPT
                            !.pc = "saving",
                            !.snap = None,
                            !.upd = Some([requestDoc EXCEPT
                                      !.items = ApplyPrices(requestDoc.items, call.items[1]),
                                      !.status = "submitted",
                                      !.submittedAt = Some(now)])]]
                      /\ last' = NoResponse("save")
    /\ UNCHANGED <<requests, now, legacyVars, ipSubmissionCache>>

\* the position of the document of an id in the collection
IndexOf(id) == CHOOSE i \in 1..Len(requests) : requests[i].id = id

\* an update that writes the items without the status: C4_AllOrNothing tells
\* it from SavedOver
C4_ItemsWithoutStatus(stored, upd) ==
    [stored EXCEPT !.items = upd.items, !.v = stored.v + 1]

\* the update save() sends: the modified paths and the version increment
SavedOver(stored, upd) ==
    [stored EXCEPT !.items = upd.items, !.status = upd.status,
                   !.submittedAt = upd.submittedAt, !.v = stored.v + 1]

\* save(): validation, then one update of the document. When another save has
\* changed the document since this call read it, the update either is refused
\* by the version check (the call fails, 500) or is applied over it.
SubmitSave(c) ==
    /\ calls[c].pc = "saving"
    /\ LET upd == calls[c].upd[1]
           i == IndexOf(upd.id)
           stored == requests[i]
           saved == SavedOver(stored, upd)
       IN  IF ~SchemaValid(upd)
           THEN /\ Finish(c, 500, "Error submitting quote", None)
                /\ UNCHANGED requests
           ELSE \/ /\ stored.v = upd.v
                   /\ stored.v < MaxVersion
                   /\ requests' = [requests EXCEPT ![i] = saved]
                   /\ Finish(c, 200, "Quote submitted successfully", Some(saved))
                \/ /\ stored.v # upd.v
                   /\ stored.v < MaxVersion
                   /\ requests' = [requests EXCEPT ![i] = saved]
                   /\ Finish(c, 200, "Quote submitted successfully", Some(saved))
                \/ /\ stored.v # upd.v
                   /\ Finish(c, 500, "Error submitting quote", None)
                   /\ UNCHANGED requests
    /\ UNCHANGED <<now, legacyVars, ipSubmissionCache>>

-----------------------------------------------------------------------------
(* PATCH /vendor-quote-requests/:requestId/status *)

\* a status update that also clears submittedAt: C13_PatchFrame tells it from
\* updateRequestStatus
C13_ClearsSubmittedAt(requestId, status) ==
    /\ status # None
    /\ status[1] \in Statuses
    /\ requestId.hex24
    /\ \E i \in 1..Len(requests) :
          /\ requests[i].id = requestId.id
          /\ LET updated == [requests[i] EXCEPT !.status = status[1], !.submittedAt = None]
             IN  /\ requests' = [requests EXCEPT ![i] = updated]
                 /\ last' = Response("patch", 200, "Status updated", 0, requestId,
                                     status[1], NoBody, None, Some(updated))
    /\ UNCHANGED <<now, calls, legacyVars, ipSubmissionCache>>

\* requestId: [hex24 |-> it matches /^[0-9a-fA-F]{24}$/, id |-> the id it names]
\* status: the body's status, None when it is missing
updateRequestStatus(requestId, status) ==
    /\ IF status = None \/ status[1] \notin Statuses
       THEN /\ last' = Response("patch", 400, "Invalid status", 0, requestId,
                                IF status = None THEN "" ELSE status[1], NoBody, None, None)
            /\ UNCHANGED requests
       ELSE IF ~requestId.hex24
       THEN /\ last' = Response("patch", 400, "Invalid request ID", 0, requestId,
                                status[1], NoBody, None, None)
            /\ UNCHANGED requests
       ELSE IF ~\E i \in 1..Len(requests) : requests[i].id = requestId.id
       THEN /\ last' = Response("patch", 404, "Quote request not found", 0,
                                requestId, status[1], NoBody, None, None)
            /\ UNCHANGED requests
       ELSE LET i == IndexOf(requestId.id)
                updated == [requests[i] EXCEPT !.status = status[1]]
            IN  /\ requests' = [requests EXCEPT ![i] = updated]
                /\ last' = Response("patch", 200, "Status updated", 0, requestId,
                                    status[1], NoBody, None, Some(updated))
    /\ UNCHANGED <<now, calls, legacyVars, ipSubmissionCache>>

-----------------------------------------------------------------------------
(* The requests the environment sends *)

CreateItem(p, v, n, d) ==
    [productId |-> p, variantId |-> v, requestedQty |-> Some([n |-> n, d |-> d])]

SubmitItem(p, v, kind, n, r) ==
    [productId |-> p, variantId |-> v, vendorPrice |-> [kind |-> kind, n |-> n],
     vendorRemark |-> r]

CreateBody(o, its, e) == [orderId |-> o, items |-> its, tokenExpiryMinutes |-> e]

\* an order of two line items: product p without a variant, product q variant v
TwoItems ==
    <<CreateItem(Some(<<"p">>), None, 1, 1), CreateItem(Some(<<"q">>), Some(<<"v">>), 2, 1)>>

CreateBodies ==
    {CreateBody(Some(<<"O">>), Some(its), Some(1)) : its \in {<<>>, TwoItems}}

Priced(p, v, n) == SubmitItem(p, v, "number", n, None)

SubmitBodies ==
    { None,
      Some(<<>>),
      Some(<<Priced(Some(<<"p">>), None, 5)>>),
      Some(<<SubmitItem(Some(<<"p">>), None, "number", 6, Some(<<" ", "r">>)),
             Priced(Some(<<"q">>), Some(<<"v">>), 7)>>),
      Some(<<Priced(Some(<<"x">>), None, 5)>>),
      Some(<<Priced(None, None, 5)>>),
      Some(<<Priced(Some(<<"p">>), None, 5), Priced(Some(<<"q">>), Some(<<"v">>), 0)>>),
      Some(<<Priced(Some(<<"p">>), None, -1)>>),
      Some(<<SubmitItem(Some(<<"p">>), None, "undefined", 0, None)>>),
      Some(<<SubmitItem(Some(<<"p">>), None, "null", 0, None)>>),
      Some(<<SubmitItem(Some(<<"p">>), None, "NaN", 0, None)>>),
      Some(<<SubmitItem(Some(<<"p">>), None, "Infinity", 0, None)>>) }

Tokens == 1..(MaxRequests + 1)

RequestIds ==
    {[hex24 |-> TRUE, id |-> i] : i \in 1..(MaxRequests + 1)}
        \cup {[hex24 |-> FALSE, id |-> 0]}

StatusInputs == {None, Some("reviewed")} \cup {Some(s) : s \in Statuses}

-----------------------------------------------------------------------------
(* The life of a quote request *)

DoCreate ==
    \E body \in CreateBodies :
        Len(requests) < MaxRequests /\ createMultiItemQuoteRequest(body)

DoGet == \E token \in Tokens : getMultiItemQuoteByToken(token)

DoPatch ==
    \E requestId \in RequestIds, status \in StatusInputs :
        updateRequestStatus(requestId, status)

\* one vendor: its submissions follow one another
DoSubmitFind ==
    \E token \in Tokens, items \in SubmitBodies : SubmitFind(1, token, items)

DoSubmitPrepare == SubmitPrepare(1)

DoSubmitSave == SubmitSave(1)

Next ==
    \/ DoCreate
    \/ DoGet
    \/ Tick
    \/ DoSubmitFind
    \/ DoSubmitPrepare
    \/ DoSubmitSave
    \/ DoPatch

Spec == Init /\ [][Next]_vars

-----------------------------------------------------------------------------
(* Concurrent submissions: NumCallers calls whose steps interleave *)

RaceBodies ==
    { Some(<<Priced(Some(<<"p">>), None, 5)>>),
      Some(<<SubmitItem(Some(<<"p">>), None, "number", 6, Some(<<" ", "r">>)),
             Priced(Some(<<"q">>), Some(<<"v">>), 7)>>),
      Some(<<Priced(Some(<<"p">>), None, 0)>>) }

RaceStatusInputs == {Some("pending"), Some("accepted")}

RaceCreate ==
    \E body \in CreateBodies :
        Len(requests) < MaxRequests /\ createMultiItemQuoteRequest(body)

RaceSubmitFind ==
    \E c \in Callers, token \in Tokens, items \in RaceBodies :
        SubmitFind(c, token, items)

RaceSubmitPrepare == \E c \in Callers : SubmitPrepare(c)

RaceSubmitSave == \E c \in Callers : SubmitSave(c)

RacePatch ==
    \E status \in RaceStatusInputs :
        updateRequestStatus([hex24 |-> TRUE, id |-> 1], status)

NextRace ==
    \/ RaceCreate
    \/ Tick
    \/ RaceSubmitFind
    \/ RaceSubmitPrepare
    \/ RaceSubmitSave
    \/ RacePatch

SpecRace == Init /\ [][NextRace]_vars

-----------------------------------------------------------------------------
(* Creation: payloads with blanks, missing fields and fractional quantities *)

RichItems ==
    { CreateItem(Some(<<"p">>), None, 1, 1),
      CreateItem(Some(<<"p">>), Some(<<>>), 1, 1),
      CreateItem(Some(<<"p">>), Some(<<"v">>), 1, 1),
      CreateItem(Some(<<"p">>), Some(<<" ", "v">>), 1, 1),
      CreateItem(Some(<<"p">>), Some(<<" ">>), 1, 1),
      CreateItem(Some(<<" ", "p">>), None, 1, 1),
      CreateItem(Some(<<"q">>), None, 2, 1),
      CreateItem(None, None, 1, 1),
      CreateItem(Some(<<" ">>), None, 1, 1),
      CreateItem(Some(<<"p">>), None, 0, 1),
      CreateItem(Some(<<"q">>), Some(<<"v">>), 1, 2),
      [productId |-> Some(<<"q">>), variantId |-> None, requestedQty |-> None] }

OneItem == <<CreateItem(Some(<<"p">>), None, 1, 1)>>

RichCreateBodies ==
    {CreateBody(Some(<<"O">>), Some(<<>>), Some(1))}
        \cup {CreateBody(Some(<<"O">>), Some(<<a>>), Some(1)) : a \in RichItems}
        \cup {CreateBody(Some(<<"O">>), Some(<<a, b>>), Some(1)) : a, b \in RichItems}
        \cup { CreateBody(None, Some(OneItem), Some(1)),
               CreateBody(Some(<<" ">>), Some(OneItem), Some(1)),
               CreateBody(Some(<<" ", "O">>), Some(OneItem), Some(0)),
               CreateBody(Some(<<"O">>), None, Some(1)),
               CreateBody(Some(<<"O">>), Some(OneItem), None) }

CreatedTokens == 1..(MaxCreated + 1)

CreateRich ==
    \E body \in RichCreateBodies :
        Len(requests) < MaxCreated /\ createMultiItemQuoteRequest(body)

GetCreated == \E token \in CreatedTokens : getMultiItemQuoteByToken(token)

NextCreate ==
    \/ CreateRich
    \/ GetCreated
    \/ Tick

SpecCreate == Init /\ [][NextCreate]_vars

-----------------------------------------------------------------------------
(* Tokens: randomUUID() may return any value; the unique index of `token`
   refuses a document whose token is already stored *)

\* an index that admits every token: C14_TokenFixedAndUnique tells it from
\* TokenTaken
C14_NoUniqueIndex(token) == FALSE

\* the unique index on `token` holds this token already
TokenTaken(token) == \E i \in 1..Len(requests) : requests[i].token = token

\* createMultiItemQuoteRequest, the value of randomUUID() being `token`
createWithToken(raw, token) ==
    LET body == SanitizeCreateBody(raw)
        err == CheckCreateBody(body)
        id == NextObjectId
    IN  /\ IF err # "ok"
           THEN /\ last' = Response("create", 400, err, 0, 0, "", raw, None, None)
                /\ UNCHANGED requests
           ELSE LET doc == [NewRequest(body, id, now) EXCEPT !.token = token] IN
                IF ~SchemaValid(doc) \/ TokenTaken(token)
                THEN /\ last' = Response("create", 500, "Error creating quote request",
                                         token, 0, "", raw, None, None)
                     /\ UNCHANGED requests
                ELSE /\ requests' = Append(requests, doc)
                     /\ last' = Response("create", 201, "Vendor quote request created",
                                         doc.token, id, "", raw, None, Some(doc))
        /\ UNCHANGED <<now, calls, legacyVars, ipSubmissionCache>>

TokenValues == 1..MaxTokenRequests

TokenBodies ==
    { Some(<<Priced(Some(<<"p">>), None, 5)>>),
      Some(<<Priced(Some(<<"p">>), None, 0)>>) }

TokenCreate ==
    \E token \in TokenValues :
        /\ Len(requests) < MaxTokenRequests
        /\ createWithToken(CreateBody(Some(<<"O">>), Some(TwoItems), Some(1)), token)

TokenGet == \E token \in TokenValues : getMultiItemQuoteByToken(token)

TokenSubmitFind ==
    \E token \in TokenValues, items \in TokenBodies : SubmitFind(1, token, items)

TokenSubmitPrepare == SubmitPrepare(1)

TokenSubmitSave == SubmitSave(1)

TokenPatch ==
    \E id \in 1..MaxTokenRequests, status \in RaceStatusInputs :
        updateRequestStatus([hex24 |-> TRUE, id |-> id], status)

NextToken ==
    \/ TokenCreate
    \/ TokenGet
    \/ Tick
    \/ TokenSubmitFind
    \/ TokenSubmitPrepare
    \/ TokenSubmitSave
    \/ TokenPatch

SpecToken == Init /\ [][NextToken]_vars

-----------------------------------------------------------------------------
(* POST /submit-quote: the legacy single-item quotes *)

LegacyStatuses == {"pending", "reviewed", "accepted", "rejected"}

\* op, code, msg as in Response; ip: the caller's address, or the parameter of
\* the route for the routes that take one; body: the payload;
\* result: the object in the answer
LegacyResponse(op, code, msg, ip, body, result) ==
    [op |-> op, code |-> code, msg |-> msg, token |-> 0, id |-> 0,
     arg |-> ip, body |-> body, items |-> None, request |-> result]

\* the sanitizers of validateQuoteSubmission: itemId and vendorName trimmed
SanitizeQuoteBody(body) ==
    [body EXCEPT
        !.itemId = IF @ = None THEN None ELSE Some(Trim(@[1])),
        !.vendorName = IF @ = None THEN None ELSE Some(Trim(@[1]))]

\* /^[a-zA-Z0-9\s\-._&()]*$/ on the characters the payloads are made of
NameCharsAllowed(s) == \A i \in 1..Len(s) : s[i] # "<"

\* isEmail(): an address with a top-level domain of any length passes
IsEmail(e) == e.kind \in {"valid", "longTld"}

\* the `match` of vendorEmail in the schema: the top-level domain has two or
\* three characters
EmailMatchesSchema(e) == e.kind = "valid"

\* validationResult(req) of validateQuoteSubmission is empty
QuoteValidatorsPass(body) ==
    /\ Truthy(body.itemId)
    /\ Len(body.itemId[1]) >= MinItemIdLength
    /\ Truthy(body.vendorName)
    /\ Len(body.vendorName[1]) >= MinVendorNameLength
    /\ Len(body.vendorName[1]) <= MaxVendorNameLength
    /\ NameCharsAllowed(body.vendorName[1])
    /\ body.vendorEmail # None
    /\ IsEmail(body.vendorEmail[1])
    /\ body.quotedPrice.kind = "number"
    /\ body.quotedPrice.n >= 0

\* the controller's own checks: the message of the first that fails, or "ok"
CheckQuoteBody(body) ==
    IF ~QuoteValidatorsPass(body)
    THEN "Validation failed"
    ELSE IF \/ ~Truthy(body.itemId)
            \/ ~Truthy(body.vendorName)
            \/ body.vendorEmail = None
            \/ body.quotedPrice.kind = "undefined"
    THEN "Missing required fields"
    ELSE IF ~IsFiniteNumber(body.quotedPrice) \/ body.quotedPrice.n < 0
    THEN "Price must be a valid positive number"
    ELSE "ok"

\* a count that tolerates one quote more: C15_RateLimit tells it from
\* RecentSubmissions
C15_CountLessOne(ip, t) ==
    LET n == Cardinality({i \in 1..Len(quotes) :
                 quotes[i].ipAddress = ip /\ quotes[i].submittedAt >= t - RateWindowMinutes})
    IN  IF n > 0 THEN n - 1 ELSE 0

\* countDocuments({ ipAddress, submittedAt: { $gte: oneHourAgo } })
RecentSubmissions(ip, t) ==
    Cardinality({i \in 1..Len(quotes) :
        quotes[i].ipAddress = ip /\ quotes[i].submittedAt >= t - RateWindowMinutes})

\* BasketItem.findById(itemId).lean()
FindBasketItem(itemId) ==
    IF \E b \in basket : b.id = itemId
    THEN Some(CHOOSE b \in basket : b.id = itemId)
    ELSE None

\* a controller that keeps only what the lookup gives: C23_LookupIndependent
\* tells it from OrFallback
C23_NoFallback(found, fallback) == found

\* found || fallback
OrFallback(found, fallback) == IF Truthy(found) THEN found ELSE fallback

\* new VendorQuote({...}); lookup: "answers" when BasketItem.findById
\* returns, "throws" when it fails
NewQuote(body, ip, lookup, id, t) ==
    LET basketItem == IF lookup = "throws" THEN None ELSE FindBasketItem(body.itemId[1])
        productNameReq == OrFallback(body.productName, None)
        productImageReq == OrFallback(body.productImage, None)
        productNameFinal == IF basketItem = None THEN productNameReq
                            ELSE OrFallback(basketItem[1].productName, productNameReq)
        productImageFinal == IF basketItem = None THEN productImageReq
                             ELSE OrFallback(basketItem[1].productImage, productImageReq)
    IN  [id |-> id,
         itemId |-> body.itemId[1],
         productName |-> IF Truthy(productNameFinal)
                         THEN Some(Substring(Trim(productNameFinal[1]), ProductNameMaxLength))
                         ELSE None,
         productImage |-> IF Truthy(productImageFinal)
                          THEN Some(Trim(productImageFinal[1]))
                          ELSE None,
         vendorName |-> Substring(Trim(body.vendorName[1]), MaxVendorNameLength),
         vendorEmail |-> body.vendorEmail[1],
         quotedPrice |-> body.quotedPrice.n,
         status |-> "pending",
         ipAddress |-> ip,
         submittedAt |-> t,
         lastModifiedAt |-> None,
         adminNotes |-> None]

\* validation of a VendorQuote by save()
QuoteSchemaValid(quote) ==
    /\ quote.itemId # <<>>
    /\ quote.vendorName # <<>>
    /\ EmailMatchesSchema(quote.vendorEmail)
    /\ quote.quotedPrice >= 0
    /\ quote.status \in LegacyStatuses

\* submitQuote, the calls of one IP being processed one after another
submitQuote(raw, ip, lookup) ==
    LET body == SanitizeQuoteBody(raw)
        err == CheckQuoteBody(body)
    IN  /\ IF err # "ok"
           THEN /\ last' = LegacyResponse("submitQuote", 400, err, ip, raw, None)
                /\ UNCHANGED quotes
           ELSE IF RecentSubmissions(ip, now) >= RateLimitThreshold
           THEN /\ last' = LegacyResponse("submitQuote", 429, "Rate limit exceeded", ip, raw,
                                          Some([retryAfter |-> RetryAfterSeconds]))
                /\ UNCHANGED quotes
           ELSE LET quote == NewQuote(body, ip, lookup, NextObjectId, now) IN
                IF ~QuoteSchemaValid(quote)
                THEN /\ last' = LegacyResponse("submitQuote", 500, "Error submitting quote",
                                               ip, raw, None)
                     /\ UNCHANGED quotes
                ELSE /\ quotes' = Append(quotes, quote)
                     /\ last' = LegacyResponse("submitQuote", 201,
                                               "Quote submitted successfully", ip, raw,
                                               Some(quote))
        /\ UNCHANGED <<now, requestVars, basket, inflight, ipSubmissionCache>>

\* the clock of the legacy store advances by a part of the rate window
LegacyTick ==
    /\ now < MaxLegacyTime
    /\ now' = now + LegacyStep
    /\ last' = NoResponse("tick")
    /\ UNCHANGED <<quotes, requestVars, basket, inflight, ipSubmissionCache>>

ItemA == <<"i", "t", "e", "m", "A">>

ItemB == <<"i", "t", "e", "m", "B">>

QuoteBody(itemId, name, email, kind, n) ==
    [itemId |-> itemId, vendorName |-> name,
     vendorEmail |-> IF email = "" THEN None ELSE Some([kind |-> email]),
     quotedPrice |-> [kind |-> kind, n |-> n], productName |-> None,
     productImage |-> None]

RateBodies ==
    { QuoteBody(Some(ItemA), Some(<<"a", "b">>), "valid", "number", 5),
      QuoteBody(Some(ItemA), Some(<<"a", "b">>), "valid", "number", -1),
      QuoteBody(Some(ItemA), Some(<<"a", "b">>), "longTld", "number", 5) }

IPs == {"ip1", "ip2"}

RateSubmit ==
    \E body \in RateBodies, ip \in IPs :
        Len(quotes) < MaxRateQuotes /\ submitQuote(body, ip, "answers")

NextRate ==
    \/ RateSubmit
    \/ LegacyTick

SpecRate == Init /\ [][NextRate]_vars

-----------------------------------------------------------------------------
(* GET /vendor-quotes: the requests grouped by order *)

Unknown == <<"U", "N", "K", "N", "O", "W", "N">>

\* the arrangements find({}).sort({ createdAt: -1 }) can return: newest first,
\* requests of equal createdAt in any order
NewestFirst ==
    {o \in [1..Len(requests) -> 1..Len(requests)] :
        /\ \A i, j \in 1..Len(requests) : i # j => o[i] # o[j]
        /\ \A i, j \in 1..Len(requests) :
              i < j => requests[o[i]].createdAt >= requests[o[j]].createdAt}

\* an entry that takes the createdAt of every request it meets: C17_NewestWins
\* tells it from NewerThan
C17_LastSeenWins(req, entry) == TRUE

\* new Date(req.createdAt) > new Date(orderEntry.createdAt)
NewerThan(req, entry) == req.createdAt > entry.createdAt

\* the element pushed on vendorQuotes for one item of one request
VendorQuoteOf(req, item) ==
    [requestId |-> req.id,
     price |-> item.vendorPrice,
     message |-> OrEmpty(item.vendorRemark),
     status |-> req.status,
     submittedAt |-> IF req.submittedAt # None THEN req.submittedAt[1] ELSE req.createdAt]

\* the loop over req.items: products is the Map of the order, in insertion
\* order, each entry with its key
RECURSIVE AddItems(_, _, _)
AddItems(products, req, k) ==
    IF k > Len(req.items)
    THEN products
    ELSE LET item == req.items[k]
             productKey == ItemKey(item.productId, item.variantId)
             with == IF \E j \in 1..Len(products) : products[j].key = productKey
                     THEN products
                     ELSE Append(products, [key |-> productKey,
                                            productId |-> item.productId,
                                            quantity |-> item.requestedQty,
                                            vendorQuotes |-> <<>>])
         IN  AddItems([j \in 1..Len(with) |->
                          IF with[j].key = productKey
                          THEN [with[j] EXCEPT
                                   !.vendorQuotes = Append(@, VendorQuoteOf(req, item))]
                          ELSE with[j]],
                      req, k + 1)

\* the loop over the sorted requests: orderMap in insertion order
RECURSIVE GroupByOrder(_, _, _)
GroupByOrder(sorted, k, orderMap) ==
    IF k > Len(sorted)
    THEN orderMap
    ELSE LET req == sorted[k]
             orderId == IF req.orderId # <<>> THEN req.orderId ELSE Unknown
             with == IF \E j \in 1..Len(orderMap) : orderMap[j].orderId = orderId
                     THEN orderMap
                     ELSE Append(orderMap, [id |-> req.id, orderId |-> orderId,
                                            products |-> <<>>,
                                            createdAt |-> req.createdAt])
             Visit(entry) ==
                 LET dated == IF NewerThan(req, entry)
                              THEN [entry EXCEPT !.createdAt = req.createdAt,
                                                 !.id = req.id]
                              ELSE entry
                 IN  [dated EXCEPT !.products = AddItems(@, req, 1)]
         IN  GroupByOrder(sorted, k + 1,
                          [j \in 1..Len(with) |->
                              IF with[j].orderId = orderId THEN Visit(with[j])
                              ELSE with[j]])

\* Array.from(orderMap.values()).map(...): the keys of the Maps are dropped
OrdersResult(orderMap) ==
    [k \in 1..Len(orderMap) |->
        [id |-> orderMap[k].id,
         orderId |-> orderMap[k].orderId,
         products |-> [j \in 1..Len(orderMap[k].products) |->
                          [productId |-> orderMap[k].products[j].productId,
                           quantity |-> orderMap[k].products[j].quantity,
                           vendorQuotes |-> orderMap[k].products[j].vendorQuotes]],
         createdAt |-> orderMap[k].createdAt]]

\* GET /vendor-quotes
listVendorQuotes ==
    /\ \E o \in NewestFirst :
          LET sorted == [i \in 1..Len(requests) |-> requests[o[i]]] IN
          last' = Response("list", 200, "", 0, 0, "", NoBody, None,
                           Some(OrdersResult(GroupByOrder(sorted, 1, <<>>))))
    /\ UNCHANGED <<requests, now, calls, legacyVars, ipSubmissionCache>>

OrderItem(p, v) == CreateItem(Some(p), v, 1, 1)

\* orders O and P; products a and b without a variant, and two products whose
\* ids and variants hold a colon
OrderBodies ==
    { CreateBody(Some(<<"O">>), Some(<<OrderItem(<<"a">>, None)>>), None),
      CreateBody(Some(<<"O">>), Some(<<OrderItem(<<"b">>, None)>>), None),
      CreateBody(Some(<<"O">>), Some(<<OrderItem(<<"a">>, None),
                                       OrderItem(<<"b">>, None)>>), None),
      CreateBody(Some(<<"P">>), Some(<<OrderItem(<<"a">>, None)>>), None),
      CreateBody(Some(<<"O">>), Some(<<OrderItem(<<"a", ":">>, Some(<<"b">>))>>), None),
      CreateBody(Some(<<"O">>), Some(<<OrderItem(<<"a">>, Some(<<":", "b">>))>>), None) }

OrdersCreate ==
    \E body \in OrderBodies :
        Len(requests) < MaxOrderRequests /\ createMultiItemQuoteRequest(body)

NextOrders ==
    \/ OrdersCreate
    \/ Tick
    \/ listVendorQuotes

SpecOrders == Init /\ [][NextOrders]_vars

-----------------------------------------------------------------------------
(* GET /vendor-quotes/:id: a quote of either collection *)

\* VendorQuoteRequest.findById(id).lean()
FindRequestById(id) ==
    IF \E i \in 1..Len(requests) : requests[i].id = id
    THEN Some(requests[CHOOSE i \in 1..Len(requests) : requests[i].id = id])
    ELSE None

\* a route without the fallback: C18_QuoteType tells it from FindLegacyById
C18_NoFallback(id) == None

\* VendorQuote.findById(id).lean()
FindLegacyById(id) ==
    IF \E i \in 1..Len(quotes) : quotes[i].id = id
    THEN Some(quotes[CHOOSE i \in 1..Len(quotes) : quotes[i].id = id])
    ELSE None

\* amounts are rationals [n, d], as quantities are
Rat(n) == [n |-> n, d |-> 1]

RatAdd(a, b) == [n |-> a.n * b.d + b.n * a.d, d |-> a.d * b.d]

RatEq(a, b) == a.n * b.d = b.n * a.d

\* a line total that leaves the quantity out: C24_TotalsAgree tells it from
\* LineTotal
C24_PriceOnly(price, qty) == Rat(price)

\* it.vendorPrice * it.requestedQty
LineTotal(price, qty) == [n |-> price * qty.n, d |-> qty.d]

\* it.requestedQty || fallback
QtyOr(qty, fallback) == IF qty.n # 0 THEN qty ELSE Rat(fallback)

\* it.vendorPrice || 0
PriceOrZero(vendorPrice) == IF vendorPrice = None THEN 0 ELSE vendorPrice[1]

RECURSIVE TotalAmount(_, _)
\* items.filter(it => typeof it.vendorPrice === 'number')
\*      .reduce((sum, it) => sum + it.vendorPrice * (it.requestedQty || 1), 0),
\* from position k on
TotalAmount(items, k) ==
    IF k > Len(items) THEN Rat(0)
    ELSE IF items[k].vendorPrice = None THEN TotalAmount(items, k + 1)
    ELSE RatAdd(LineTotal(items[k].vendorPrice[1], QtyOr(items[k].requestedQty, 1)),
                TotalAmount(items, k + 1))

\* the body of the answer for a quote request
MultiAnswer(requestDoc) ==
    [quoteType |-> "multi",
     id |-> requestDoc.id,
     totalAmount |-> TotalAmount(requestDoc.items, 1),
     products |-> [j \in 1..Len(requestDoc.items) |->
                     LET it == requestDoc.items[j] IN
                     [productId |-> it.productId,
                      quantity |-> QtyOr(it.requestedQty, 0),
                      vendorPrice |-> PriceOrZero(it.vendorPrice),
                      totalPrice |-> LineTotal(PriceOrZero(it.vendorPrice),
                                               QtyOr(it.requestedQty, 0))]],
     status |-> requestDoc.status,
     submittedAt |-> requestDoc.submittedAt]

\* the body of the answer for a legacy quote
SingleAnswer(singleQuote) ==
    [quoteType |-> "single",
     id |-> singleQuote.id,
     totalAmount |-> Rat(singleQuote.quotedPrice),
     products |-> <<[productId |-> singleQuote.itemId,
                     quantity |-> Rat(1),
                     vendorPrice |-> singleQuote.quotedPrice,
                     totalPrice |-> Rat(singleQuote.quotedPrice)]>>,
     status |-> singleQuote.status,
     submittedAt |-> Some(singleQuote.submittedAt)]

\* id: [hex24 |-> it matches /^[0-9a-fA-F]{24}$/, id |-> the id it names]
getQuoteById(id) ==
    /\ IF ~id.hex24
       THEN last' = Response("getById", 400, "Invalid quote ID", 0, id, "", NoBody, None, None)
       ELSE IF FindRequestById(id.id) # None
       THEN last' = Response("getById", 200, "", 0, id, "", NoBody, None,
                             Some(MultiAnswer(FindRequestById(id.id)[1])))
       ELSE IF FindLegacyById(id.id) # None
       THEN last' = Response("getById", 200, "", 0, id, "", NoBody, None,
                             Some(SingleAnswer(FindLegacyById(id.id)[1])))
       ELSE last' = Response("getById", 404, "Quote not found", 0, id, "", NoBody, None, None)
    /\ UNCHANGED <<requests, now, calls, legacyVars, ipSubmissionCache>>

ByIdInputs ==
    {[hex24 |-> TRUE, id |-> i] : i \in 1..(MaxByIdRequests + MaxByIdQuotes + 1)}
        \cup {[hex24 |-> FALSE, id |-> 0]}

ByIdCreate ==
    /\ Len(requests) < MaxByIdRequests
    /\ createMultiItemQuoteRequest(
           CreateBody(Some(<<"O">>), Some(<<OrderItem(<<"a">>, None)>>), None))

ByIdSubmitQuote ==
    /\ Len(quotes) < MaxByIdQuotes
    /\ submitQuote(QuoteBody(Some(ItemA), Some(<<"a", "b">>), "valid", "number", 5),
                   "ip1", "answers")

ByIdGet == \E id \in ByIdInputs : getQuoteById(id)

NextById ==
    \/ ByIdCreate
    \/ ByIdSubmitQuote
    \/ ByIdGet
    \/ Tick

SpecById == Init /\ [][NextById]_vars

-----------------------------------------------------------------------------
(* The legacy quotes: the listing for an item, the statuses and the notes *)

\* a quote of the given _id, its position in the collection
LegacyIndexOf(id) == CHOOSE i \in 1..Len(quotes) : quotes[i].id = id

\* a filter that keeps the rejected quotes: C19_ItemListing tells it from
\* ActiveQuotesOf
C19_RejectedIncluded(itemId) == {i \in 1..Len(quotes) : quotes[i].itemId = itemId}

\* find({ itemId, status: { $ne: 'rejected' } })
ActiveQuotesOf(itemId) ==
    {i \in 1..Len(quotes) : quotes[i].itemId = itemId /\ quotes[i].status # "rejected"}

\* .sort({ quotedPrice: 1 }): the arrangements of the quotes S by ascending
\* price, quotes of equal price in any order
CheapestFirst(S) ==
    {o \in [1..Cardinality(S) -> S] :
        /\ \A i, j \in 1..Cardinality(S) : i # j => o[i] # o[j]
        /\ \A i, j \in 1..Cardinality(S) :
              i < j => quotes[o[i]].quotedPrice <= quotes[o[j]].quotedPrice}

\* .select('vendorName vendorEmail vendorPhone quotedPrice remarks submittedAt status')
SelectQuote(quote) ==
    [id |-> quote.id, vendorName |-> quote.vendorName, vendorEmail |-> quote.vendorEmail,
     quotedPrice |-> quote.quotedPrice, status |-> quote.status,
     submittedAt |-> quote.submittedAt]

RECURSIVE SumPrices(_, _)
\* quotes.reduce((sum, q) => sum + q.quotedPrice, 0) from position k on
SumPrices(list, k) ==
    IF k > Len(list) THEN 0 ELSE list[k].quotedPrice + SumPrices(list, k + 1)

\* (sum / len).toFixed(2), prices being counted in hundredths: the hundredths
\* of the decimal string, the nearest to the quotient; for a quotient halfway
\* between two hundredths the binary value of the quotient decides, and it
\* lies on either side
ToFixed2(sum, len) ==
    LET q == sum \div len
        r == sum % len
    IN  IF 2 * r < len THEN {q}
        ELSE IF 2 * r > len THEN {q + 1}
        ELSE {q, q + 1}

\* getQuotesForItem
getQuotesForItem(itemId) ==
    /\ IF itemId = <<>>
       THEN last' = LegacyResponse("getQuotesForItem", 400, "Item ID is required",
                                  itemId, NoBody, None)
       ELSE \E o \in CheapestFirst(ActiveQuotesOf(itemId)) :
               LET list == [i \in 1..Len(o) |-> SelectQuote(quotes[o[i]])] IN
               \E fixed \in IF Len(list) > 0 THEN ToFixed2(SumPrices(list, 1), Len(list))
                             ELSE {0} :
                  last' = LegacyResponse("getQuotesForItem", 200, "", itemId, NoBody,
                             Some([quotes |-> list,
                                   stats |-> [total |-> Len(list),
                                              lowestPrice |-> IF Len(list) > 0
                                                              THEN Some(list[1].quotedPrice)
                                                              ELSE None,
                                              averagePrice |-> IF Len(list) > 0
                                                               THEN Some([fixed |-> fixed])
                                                               ELSE None]]))
    /\ UNCHANGED <<quotes, now, requestVars, basket, inflight, ipSubmissionCache>>

\* adminNotes.trim().substring(0, 1000)
CleanNotes(notes) == Substring(Trim(notes), AdminNotesMaxLength)

\* updateQuoteStatus; quoteId: [hex24 |-> it is a well-formed ObjectId,
\* id |-> the id it names]; status, adminNotes: None when missing
updateQuoteStatus(quoteId, status, adminNotes) ==
    /\ IF status = None \/ status[1] \notin LegacyStatuses
       THEN /\ last' = LegacyResponse("updateQuoteStatus", 400, "Invalid status", quoteId,
                                      [status |-> status, adminNotes |-> adminNotes], None)
            /\ UNCHANGED quotes
       ELSE IF ~quoteId.hex24
       THEN /\ last' = LegacyResponse("updateQuoteStatus", 500, "Error updating quote status",
                                      quoteId,
                                      [status |-> status, adminNotes |-> adminNotes], None)
            /\ UNCHANGED quotes
       ELSE IF FindLegacyById(quoteId.id) = None
       THEN /\ last' = LegacyResponse("updateQuoteStatus", 404, "Quote not found", quoteId,
                                      [status |-> status, adminNotes |-> adminNotes], None)
            /\ UNCHANGED quotes
       ELSE LET i == LegacyIndexOf(quoteId.id)
                updated == [quotes[i] EXCEPT
                               !.status = status[1],
                               !.lastModifiedAt = Some(now),
                               !.adminNotes = IF Truthy(adminNotes)
                                              THEN Some(CleanNotes(adminNotes[1]))
                                              ELSE @]
            IN  /\ quotes' = [quotes EXCEPT ![i] = updated]
                /\ last' = LegacyResponse("updateQuoteStatus", 200, "Quote status updated",
                                          quoteId,
                                          [status |-> status, adminNotes |-> adminNotes],
                                          Some(updated))
    /\ UNCHANGED <<now, requestVars, basket, inflight, ipSubmissionCache>>

\* addAdminNotes
addAdminNotes(quoteId, adminNotes) ==
    /\ IF ~Truthy(adminNotes) \/ Trim(adminNotes[1]) = <<>>
       THEN /\ last' = LegacyResponse("addAdminNotes", 400, "Admin notes cannot be empty",
                                      quoteId, [status |-> None, adminNotes |-> adminNotes],
                                      None)
            /\ UNCHANGED quotes
       ELSE IF ~quoteId.hex24
       THEN /\ last' = LegacyResponse("addAdminNotes", 500, "Error adding admin notes",
                                      quoteId, [status |-> None, adminNotes |-> adminNotes],
                                      None)
            /\ UNCHANGED quotes
       ELSE IF FindLegacyById(quoteId.id) = None
       THEN /\ last' = LegacyResponse("addAdminNotes", 404, "Quote not found", quoteId,
                                      [status |-> None, adminNotes |-> adminNotes], None)
            /\ UNCHANGED quotes
       ELSE LET i == LegacyIndexOf(quoteId.id)
                updated == [quotes[i] EXCEPT !.adminNotes = Some(CleanNotes(adminNotes[1])),
                                             !.lastModifiedAt = Some(now)]
            IN  /\ quotes' = [quotes EXCEPT ![i] = updated]
                /\ last' = LegacyResponse("addAdminNotes", 200,
                                          "Admin notes added successfully", quoteId,
                                          [status |-> None, adminNotes |-> adminNotes],
                                          Some(updated))
    /\ UNCHANGED <<now, requestVars, basket, inflight, ipSubmissionCache>>

\* bulkUpdateStatus; quoteIds: None when it is not an array
bulkUpdateStatus(quoteIds, status) ==
    /\ IF quoteIds = None \/ quoteIds[1] = <<>>
       THEN /\ last' = LegacyResponse("bulkUpdateStatus", 400, "Quote IDs array is required",
                                      quoteIds, [status |-> status, adminNotes |-> None], None)
            /\ UNCHANGED quotes
       ELSE IF status = None \/ status[1] \notin LegacyStatuses
       THEN /\ last' = LegacyResponse("bulkUpdateStatus", 400, "Invalid status", quoteIds,
                                      [status |-> status, adminNotes |-> None], None)
            /\ UNCHANGED quotes
       ELSE IF \E k \in 1..Len(quoteIds[1]) : ~quoteIds[1][k].hex24
       THEN /\ last' = LegacyResponse("bulkUpdateStatus", 500, "Error updating quotes",
                                      quoteIds, [status |-> status, adminNotes |-> None], None)
            /\ UNCHANGED quotes
       ELSE LET matched == {i \in 1..Len(quotes) :
                               \E k \in 1..Len(quoteIds[1]) : quoteIds[1][k].id = quotes[i].id}
            IN  /\ quotes' = [i \in 1..Len(quotes) |->
                                 IF i \in matched
                                 THEN [quotes[i] EXCEPT !.status = status[1],
                                                        !.lastModifiedAt = Some(now)]
                                 ELSE quotes[i]]
                /\ last' = LegacyResponse("bulkUpdateStatus", 200, "Updated", quoteIds,
                                          [status |-> status, adminNotes |-> None],
                                          Some([matched |-> Cardinality(matched)]))
    /\ UNCHANGED <<now, requestVars, basket, inflight, ipSubmissionCache>>

\* PUT /admin/quote/:quoteId; imported: the module of the route has the model
\* VendorQuote in scope (the revision that declares the route does not
\* require it, a later revision of the file does)
putAdminQuote(quoteId, status, imported) ==
    /\ IF ~imported \/ ~quoteId.hex24
       THEN /\ last' = LegacyResponse("putAdminQuote", 500, "error", quoteId,
                                      [status |-> status, adminNotes |-> None], None)
            /\ UNCHANGED quotes
       ELSE IF FindLegacyById(quoteId.id) = None
       THEN /\ last' = LegacyResponse("putAdminQuote", 404, "Quote not found", quoteId,
                                      [status |-> status, adminNotes |-> None], None)
            /\ UNCHANGED quotes
       ELSE LET i == LegacyIndexOf(quoteId.id)
                updated == [quotes[i] EXCEPT
                               !.status = IF status = None THEN @ ELSE status[1]]
            IN  /\ quotes' = [quotes EXCEPT ![i] = updated]
                /\ last' = LegacyResponse("putAdminQuote", 200, "", quoteId,
                                          [status |-> status, adminNotes |-> None],
                                          Some(updated))
    /\ UNCHANGED <<now, requestVars, basket, inflight, ipSubmissionCache>>

\* quote.updateStatus(newStatus, adminNotes) of the model, on the stored quote
\* of position i
updateStatus(i, newStatus, adminNotes) ==
    /\ IF newStatus \notin LegacyStatuses
       THEN /\ last' = LegacyResponse("updateStatus", 0, "Invalid status value",
                                      [hex24 |-> TRUE, id |-> quotes[i].id],
                                      [status |-> Some(newStatus), adminNotes |-> adminNotes],
                                      None)
            /\ UNCHANGED quotes
       ELSE LET updated == [quotes[i] EXCEPT
                               !.status = newStatus,
                               !.lastModifiedAt = Some(now),
                               !.adminNotes = IF Truthy(adminNotes)
                                              THEN Some(CleanNotes(adminNotes[1]))
                                              ELSE @]
            IN  /\ quotes' = [quotes EXCEPT ![i] = updated]
                /\ last' = LegacyResponse("updateStatus", 200, "",
                                          [hex24 |-> TRUE, id |-> quotes[i].id],
                                          [status |-> Some(newStatus),
                                           adminNotes |-> adminNotes],
                                          Some(updated))
    /\ UNCHANGED <<now, requestVars, basket, inflight, ipSubmissionCache>>

ItemBodies ==
    {QuoteBody(Some(itemId), Some(<<"a", "b">>), "valid", "number", n) :
        itemId \in {ItemA, ItemB}, n \in {1, 2}}

ItemSubmit ==
    \E body \in ItemBodies :
        Len(quotes) < MaxItemQuotes /\ submitQuote(body, "ip1", "answers")

ItemReject ==
    \E i \in 1..Len(quotes), status \in {"rejected", "pending"} :
        updateQuoteStatus([hex24 |-> TRUE, id |-> quotes[i].id], Some(status), None)

ItemList == \E itemId \in {ItemA, ItemB, <<>>} : getQuotesForItem(itemId)

NextItem ==
    \/ ItemSubmit
    \/ ItemReject
    \/ ItemList

SpecItem == Init /\ [][NextItem]_vars

StatusQuoteIds ==
    {[hex24 |-> TRUE, id |-> i] : i \in 1..(MaxStatusQuotes + 1)}
        \cup {[hex24 |-> FALSE, id |-> 0]}

\* a missing status, one of the enumeration and one outside it
LegacyStatusInputs == {None, Some("reviewed"), Some("approved")}

NotesInputs == {None, Some(<<"n">>)}

BulkInputs ==
    {None, Some(<<>>),
     Some(<<[hex24 |-> TRUE, id |-> 1], [hex24 |-> TRUE, id |-> 2]>>),
     Some(<<[hex24 |-> FALSE, id |-> 0]>>)}

StatusSubmit ==
    /\ Len(quotes) < MaxStatusQuotes
    /\ submitQuote(QuoteBody(Some(ItemA), Some(<<"a", "b">>), "valid", "number", 5),
                   "ip1", "answers")

StatusUpdate ==
    \E quoteId \in StatusQuoteIds, status \in LegacyStatusInputs, notes \in NotesInputs :
        updateQuoteStatus(quoteId, status, notes)

StatusNotes ==
    \E quoteId \in StatusQuoteIds, notes \in NotesInputs : addAdminNotes(quoteId, notes)

StatusBulk ==
    \E quoteIds \in BulkInputs, status \in LegacyStatusInputs :
        bulkUpdateStatus(quoteIds, status)

StatusPut ==
    \E quoteId \in StatusQuoteIds, status \in LegacyStatusInputs, imported \in BOOLEAN :
        putAdminQuote(quoteId, status, imported)

StatusMethod ==
    \E i \in 1..Len(quotes), status \in {"reviewed", "approved"}, notes \in NotesInputs :
        updateStatus(i, status, notes)

NextStatus ==
    \/ StatusSubmit
    \/ StatusUpdate
    \/ StatusNotes
    \/ StatusBulk
    \/ StatusPut
    \/ StatusMethod
    \/ Tick

SpecStatus == Init /\ [][NextStatus]_vars

-----------------------------------------------------------------------------
(* The items of a request: creations with equal keys, then submissions *)

KeyItem(p, v) == CreateItem(Some(p), v, 1, 1)

\* two variants of p; p twice; p without a variant and with a blank one; p and
\* q; two products whose formatted keys are equal
KeyBodies ==
    {CreateBody(Some(<<"O">>), Some(its), None) :
        its \in { <<KeyItem(<<"p">>, None), KeyItem(<<"p">>, Some(<<"v">>))>>,
                  <<KeyItem(<<"p">>, None), KeyItem(<<"p">>, None)>>,
                  <<KeyItem(<<"p">>, None), KeyItem(<<"p">>, Some(<<" ">>))>>,
                  TwoItems,
                  <<KeyItem(<<"a", ":">>, Some(<<"b">>)),
                    KeyItem(<<"a">>, Some(<<":", "b">>))>> }}

\* prices for both variants of p, for the second item only, and for a product
\* no request holds
KeySubmits ==
    { Some(<<Priced(Some(<<"p">>), None, 5), Priced(Some(<<"p">>), Some(<<"v">>), 6)>>),
      Some(<<Priced(Some(<<"q">>), Some(<<"v">>), 7)>>),
      Some(<<Priced(Some(<<"x">>), None, 1)>>) }

KeysCreate ==
    \E body \in KeyBodies :
        Len(requests) < MaxRequests /\ createMultiItemQuoteRequest(body)

KeysSubmitFind ==
    \E token \in Tokens, items \in KeySubmits : SubmitFind(1, token, items)

KeysSubmitPrepare == SubmitPrepare(1)

KeysSubmitSave == SubmitSave(1)

KeysPatch ==
    \E status \in RaceStatusInputs :
        updateRequestStatus([hex24 |-> TRUE, id |-> 1], status)

NextKeys ==
    \/ KeysCreate
    \/ Tick
    \/ KeysSubmitFind
    \/ KeysSubmitPrepare
    \/ KeysSubmitSave
    \/ KeysPatch

SpecKeys == Init /\ [][NextKeys]_vars

-----------------------------------------------------------------------------
(* submitQuote and the basket items it looks up *)

\* createBasketItem; id: the _id the new item gets, as the string a vendor
\* sends for itemId
createBasketItem(id, productName, productImage) ==
    /\ \A b \in basket : b.id # id
    /\ IF ~Truthy(productName)
       THEN /\ last' = LegacyResponse("createBasketItem", 400,
                                      "Product name and quantity are required", id,
                                      NoBody, None)
            /\ UNCHANGED basket
       ELSE LET item == [id |-> id,
                         productName |-> Some(Trim(productName[1])),
                         productImage |-> OrFallback(productImage, None)]
            IN  /\ basket' = basket \cup {item}
                /\ last' = LegacyResponse("createBasketItem", 201,
                                          "Basket item created successfully", id, NoBody,
                                          Some(item))
    /\ UNCHANGED <<quotes, now, requestVars, inflight, ipSubmissionCache>>

\* a valid payload for the item, with the product name and image of the caller
LookupBody(itemId, productName, productImage) ==
    [QuoteBody(Some(itemId), Some(<<"a", "b">>), "valid", "number", 5)
        EXCEPT !.productName = productName, !.productImage = productImage]

LookupBodies ==
    {LookupBody(itemId, productName, productImage) :
        itemId \in {ItemA, ItemB},
        productName \in {None, Some(<<>>), Some(<<" ", "c">>)},
        productImage \in {None, Some(<<"j">>)}}

LookupCreateBasket ==
    \E productName \in {None, Some(<<"b">>)}, productImage \in {None, Some(<<"i">>)} :
        createBasketItem(ItemA, productName, productImage)

LookupSubmit ==
    \E body \in LookupBodies, lookup \in {"answers", "throws"} :
        Len(quotes) < MaxLookupQuotes /\ submitQuote(body, "ip1", lookup)

NextLookup ==
    \/ LookupCreateBasket
    \/ LookupSubmit

SpecLookup == Init /\ [][NextLookup]_vars

-----------------------------------------------------------------------------
(* GET /admin/vendor-quote-requests and the totals of a request *)

\* the filter of the listing: orderId when given, status when it is pending
\* or submitted
MatchesQuery(r, orderId, status) ==
    /\ Truthy(orderId) => r.orderId = orderId[1]
    /\ (status # None /\ status[1] \in {"pending", "submitted"}) => r.status = status[1]

\* parseInt(value, 10) || fallback, for a parameter that is missing or a
\* natural number
IntOr(value, fallback) == IF value = None \/ value[1] = 0 THEN fallback ELSE value[1]

\* getAdminMultiItemQuotes
getAdminMultiItemQuotes(orderId, status, page, limit) ==
    /\ \E o \in NewestFirst :
          LET sorted == [i \in 1..Len(requests) |-> requests[o[i]]]
              Test(r) == MatchesQuery(r, orderId, status)
              found == SelectSeq(sorted, Test)
              pageNum == IntOr(page, 1)
              pageSize == IF IntOr(limit, DefaultPageSize) < MaxPageSize
                          THEN IntOr(limit, DefaultPageSize) ELSE MaxPageSize
              skip == (pageNum - 1) * pageSize
              upto == IF skip + pageSize < Len(found) THEN skip + pageSize ELSE Len(found)
              shown == SubSeq(found, skip + 1, upto)
          IN  last' = Response("adminList", 200, "", 0, 0, "", NoBody, None,
                         Some([requests |-> [k \in 1..Len(shown) |->
                                               [id |-> shown[k].id,
                                                status |-> shown[k].status,
                                                totalAmount |-> TotalAmount(shown[k].items, 1)]],
                               total |-> Len(found)]))
    /\ UNCHANGED <<requests, now, calls, legacyVars, ipSubmissionCache>>

\* one and a half of p, two of q variant v
TotalsItems ==
    <<CreateItem(Some(<<"p">>), None, 3, 2), CreateItem(Some(<<"q">>), Some(<<"v">>), 2, 1)>>

\* both items priced; p alone priced; p priced at 0
TotalsSubmits ==
    { Some(<<Priced(Some(<<"p">>), None, 5), Priced(Some(<<"q">>), Some(<<"v">>), 7)>>),
      Some(<<Priced(Some(<<"p">>), None, 3)>>),
      Some(<<Priced(Some(<<"p">>), None, 0)>>) }

TotalsIds ==
    {[hex24 |-> TRUE, id |-> i] : i \in 1..(MaxTotalsRequests + MaxTotalsQuotes + 1)}
        \cup {[hex24 |-> FALSE, id |-> 0]}

TotalsCreate ==
    /\ Len(requests) < MaxTotalsRequests
    /\ createMultiItemQuoteRequest(CreateBody(Some(<<"O">>), Some(TotalsItems), None))

TotalsSubmitFind ==
    \E token \in 1..(MaxTotalsRequests + MaxTotalsQuotes), items \in TotalsSubmits :
        SubmitFind(1, token, items)

TotalsSubmitPrepare == SubmitPrepare(1)

TotalsSubmitSave == SubmitSave(1)

TotalsSubmitQuote ==
    /\ Len(quotes) < MaxTotalsQuotes
    /\ submitQuote(QuoteBody(Some(ItemA), Some(<<"a", "b">>), "valid", "number", 5),
                   "ip1", "answers")

TotalsGetById == \E id \in TotalsIds : getQuoteById(id)

TotalsAdminList ==
    \E orderId \in {None, Some(<<"O">>)}, status \in {None, Some("submitted")},
       page \in {None, Some(2)}, limit \in {None, Some(1)} :
        getAdminMultiItemQuotes(orderId, status, page, limit)

NextTotals ==
    \/ TotalsCreate
    \/ TotalsSubmitFind
    \/ TotalsSubmitPrepare
    \/ TotalsSubmitSave
    \/ TotalsSubmitQuote
    \/ TotalsGetById
    \/ TotalsAdminList

SpecTotals == Init /\ [][NextTotals]_vars

-----------------------------------------------------------------------------
(* Concurrent submitQuote calls: the count and the insert of a call are two
   steps, and the steps of different calls interleave *)

\* submitQuote up to the answer of countDocuments: validation, then the count
SubmitQuoteCount(c, raw, ip) ==
    LET body == SanitizeQuoteBody(raw)
        err == CheckQuoteBody(body)
    IN  /\ inflight[c].pc = "idle"
        /\ IF err # "ok"
           THEN /\ last' = LegacyResponse("submitQuote", 400, err, ip, raw, None)
                /\ UNCHANGED inflight
           ELSE IF RecentSubmissions(ip, now) >= RateLimitThreshold
           THEN /\ last' = LegacyResponse("submitQuote", 429, "Rate limit exceeded", ip, raw,
                                          Some([retryAfter |-> RetryAfterSeconds]))
                /\ UNCHANGED inflight
           ELSE /\ inflight' = [inflight EXCEPT ![c] =
                                   [pc |-> "counted", ip |-> ip, body |-> raw]]
                /\ last' = NoResponse("count")
        /\ UNCHANGED <<quotes, now, requestVars, basket, ipSubmissionCache>>

\* submitQuote from the lookup on: the quote is built and saved
SubmitQuoteInsert(c, lookup) ==
    /\ inflight[c].pc = "counted"
    /\ LET raw == inflight[c].body
           ip == inflight[c].ip
           quote == NewQuote(SanitizeQuoteBody(raw), ip, lookup, NextObjectId, now)
       IN  IF ~QuoteSchemaValid(quote)
           THEN /\ last' = LegacyResponse("submitQuote", 500, "Error submitting quote",
                                          ip, raw, None)
                /\ UNCHANGED quotes
           ELSE /\ quotes' = Append(quotes, quote)
                /\ last' = LegacyResponse("submitQuote", 201,
                                          "Quote submitted successfully", ip, raw,
                                          Some(quote))
    /\ inflight' = [inflight EXCEPT ![c] = IdleSubmission]
    /\ UNCHANGED <<now, requestVars, basket, ipSubmissionCache>>

RateRaceCount ==
    \E c \in Callers, body \in RateBodies, ip \in IPs :
        Len(quotes) < MaxRaceQuotes /\ SubmitQuoteCount(c, body, ip)

RateRaceInsert == \E c \in Callers : SubmitQuoteInsert(c, "answers")

NextRateRace ==
    \/ RateRaceCount
    \/ RateRaceInsert
    \/ LegacyTick

SpecRateRace == Init /\ [][NextRateRace]_vars

-----------------------------------------------------------------------------
(* trackIPSubmissions, the in-memory limiter in front of POST /submit-quote *)

\* the window of the tracker, in milliseconds
TrackerWindowMs == 3600000

\* the number of recent submissions from which the tracker answers 429
TrackerThreshold == 50

\* accepted requests of an address other than ip1, in one entry of the Map
MaxQuietSubmissions == 1

\* Date.now() at the model's clock
DateNow(t) == t * 60000

\* Math.ceil(a / b) for b > 0
MathCeilDiv(a, b) == IF a >= 0 THEN (a + b - 1) \div b ELSE -((-a) \div b)

\* times.filter(time => time > oneHourAgo)
RecentOf(times, oneHourAgo) == SelectSeq(times, LAMBDA time : time > oneHourAgo)

\* the retryAfter of the 429, in seconds
RetryAfter(recentSubmissions, t) ==
    MathCeilDiv(recentSubmissions[1] + TrackerWindowMs - t, 1000)

\* the forEach of the cleanup: an entry with no recent time is deleted, any
\* other keeps its recent times
CleanedUp(cache, oneHourAgo) ==
    [key \in DOMAIN cache |->
        IF cache[key] = None THEN None
        ELSE LET filtered == RecentOf(cache[key][1], oneHourAgo)
             IN  IF Len(filtered) = 0 THEN None ELSE Some(filtered)]

\* one pass of a request through the middleware; cleanup: Math.random() < 0.1
trackIPSubmissions(ip, cleanup) ==
    LET t == DateNow(now)
        oneHourAgo == t - TrackerWindowMs
        submissions == IF ipSubmissionCache[ip] = None THEN <<>>
                       ELSE ipSubmissionCache[ip][1]
        recentSubmissions == RecentOf(submissions, oneHourAgo)
    IN  /\ IF Len(recentSubmissions) >= TrackerThreshold
           THEN /\ ipSubmissionCache' =
                      [ipSubmissionCache EXCEPT ![ip] = Some(submissions)]
                /\ last' = LegacyResponse("track", 429,
                               "Rate limit exceeded. Maximum 50 submissions per hour.",
                               ip, <<>>,
                               Some([retryAfter |-> RetryAfter(recentSubmissions, t)]))
           ELSE LET set == [ipSubmissionCache EXCEPT
                               ![ip] = Some(Append(recentSubmissions, t))]
                IN  /\ ipSubmissionCache' =
                          IF cleanup THEN CleanedUp(set, oneHourAgo) ELSE set
                    /\ last' = LegacyResponse("track", 0, "next", ip, <<>>, None)
        /\ UNCHANGED <<now, requestVars, legacyVars>>

TrackerRequest ==
    \E ip \in IPs, cleanup \in BOOLEAN :
        /\ IF ip = "ip1" \/ ipSubmissionCache[ip] = None THEN TRUE
           ELSE LET recent == RecentOf(ipSubmissionCache[ip][1],
                                       DateNow(now) - TrackerWindowMs)
                IN  Len(recent) < MaxQuietSubmissions
        /\ trackIPSubmissions(ip, cleanup)

NextTracker == TrackerRequest \/ LegacyTick

\* the clock advances by itself; a request arrives only when a client sends
\* one, and the middleware has no timer of its own
SpecTracker == Init /\ [][NextTracker]_vars /\ WF_vars(LegacyTick)

-----------------------------------------------------------------------------
(* Properties of the submission *)

\* the key of a stored item
StoredKey(item) == ItemKey(item.productId, item.variantId)

\* the document a token names, if any, has been submitted before
SubmittedBefore(token) ==
    FindByToken(token) # None /\ FindByToken(token)[1].v >= 1

\* C1: of two submitMultiItemQuote calls that run concurrently against the same
\* valid token exactly one succeeds and the other is answered 410 'Quote
\* already submitted', the stored prices being the winner's: a call whose save()
\* comes after another call's save() on the document it read is answered 410
\* and leaves the stored request as the winner wrote it.
C1_LoserAnswered410 ==
    [][\A c \in Callers :
          (/\ calls[c].pc = "saving"
           /\ calls'[c].pc = "idle"
           /\ requests[IndexOf(calls[c].upd[1].id)].v # calls[c].upd[1].v)
          => (/\ last'.code = 410
              /\ last'.msg = "Quote already submitted"
              /\ requests' = requests)]_vars

\* C2: once a submit has succeeded for a token, every later submit with that
\* token is answered 410 'Quote already submitted', whatever its payload
\* (an empty or missing items array included), and the stored requests stay
\* as they are.
C2_LaterSubmitAnswered410 ==
    [][(last'.op = "submit" /\ SubmittedBefore(last'.token))
          => (/\ last'.code = 410
              /\ last'.msg = "Quote already submitted"
              /\ requests' = requests)]_vars

\* C3: a request is mutated by vendor submission at most once: once a submit
\* has succeeded, and while the token is unexpired, no step (whatever admin
\* status updates came in between) is a successful submit by that token or
\* changes the request's items.
C3_MutatedAtMostOnce ==
    [][\A i \in 1..Len(requests) :
          (requests[i].v >= 1 /\ requests[i].tokenExpiresAt > now)
          => (/\ requests'[i].items = requests[i].items
              /\ ~(/\ last'.op = "submit"
                   /\ last'.code = 200
                   /\ last'.token = requests[i].token))]_vars

\* the stored item carries the price and the remark the payload gives for its
\* key (the last item of that key in the payload)
C4_Carries(item, payload) ==
    \E k \in 1..Len(payload) :
        /\ SubmittedKey(payload[k]) = StoredKey(item)
        /\ \A m \in 1..Len(payload) : m > k => SubmittedKey(payload[m]) # StoredKey(item)
        /\ item.vendorPrice = Some(payload[k].vendorPrice.n)
        /\ item.vendorRemark =
              (IF Truthy(payload[k].vendorRemark)
               THEN Some(Substring(Trim(payload[k].vendorRemark[1]), RemarkMaxLength))
               ELSE None)

\* C4: submitMultiItemQuote is all-or-nothing: every step of a submit call
\* leaves the stored requests as they were, or answers 200 and leaves one
\* request fully updated (status submitted, submittedAt set, every stored item
\* whose key is in the payload carrying the submitted price and remark), the
\* other requests as they were; so no submit step stores a price with the
\* status left pending.
C4_AllOrNothing ==
    [][last'.op \in {"submit", "findOne", "save"} =>
          \/ requests' = requests
          \/ /\ last'.code = 200
             /\ Len(requests') = Len(requests)
             /\ \E i \in 1..Len(requests) :
                   /\ requests'[i].token = last'.token
                   /\ requests'[i].status = "submitted"
                   /\ requests'[i].submittedAt # None
                   /\ \A j \in 1..Len(requests'[i].items) :
                         (\E k \in 1..Len(last'.items[1]) :
                              SubmittedKey(last'.items[1][k]) = StoredKey(requests'[i].items[j]))
                         => C4_Carries(requests'[i].items[j], last'.items[1])
                   /\ \A m \in 1..Len(requests) : m # i => requests'[m] = requests[m]]_vars

\* C4 happens: a submit has answered 200 and the stored request is submitted
\* with both of its items priced
C4_Witness ==
    /\ last.op = "submit"
    /\ last.code = 200
    /\ Len(last.items[1]) = 2
    /\ \E i \in 1..Len(requests) :
          /\ requests[i].status = "submitted"
          /\ \A j \in 1..Len(requests[i].items) : requests[i].items[j].vendorPrice # None

\* what the call's findOne returned, for the step that answers the call
C5_Found ==
    IF calls[1].pc = "found" THEN calls[1].snap ELSE FindByToken(last'.token)

-----------------------------------------------------------------------------
(* Properties of the creation and of the lookup *)

\* the (productId, variantId) pair of a payload item as it is stored: both
\* trimmed, an absent, null or empty variantId being no variant
C7_StoredPair(item) ==
    <<Trim(item.productId[1]),
      IF item.variantId = None THEN <<>> ELSE Trim(item.variantId[1])>>

\* the payload has an orderId and at least one item, each with a productId
\* (neither blank) and a requestedQty of at least minQty = n/d
C6_WellFormed(body, n, d) ==
    /\ body.orderId # None
    /\ Trim(body.orderId[1]) # <<>>
    /\ body.items # None
    /\ Len(body.items[1]) >= 1
    /\ \A i \in 1..Len(body.items[1]) :
          LET item == body.items[1][i] IN
          /\ item.productId # None
          /\ Trim(item.productId[1]) # <<>>
          /\ item.requestedQty # None
          /\ item.requestedQty[1].d > 0
          /\ item.requestedQty[1].n * d >= n * item.requestedQty[1].d

C7_HasDuplicate(body) ==
    \E i, j \in 1..Len(body.items[1]) :
        i < j /\ C7_StoredPair(body.items[1][i]) = C7_StoredPair(body.items[1][j])

\* C6: a creation payload with an orderId, N >= 1 items that each have a
\* productId and requestedQty > 0, and pairwise distinct (productId, variantId)
\* pairs is answered 201 and persisted as one request of N items in payload
\* order, every vendorPrice and vendorRemark null, status pending, submittedAt
\* null, found by its token.
C6_ValidPayloadCreated ==
    (/\ last.op = "create"
     /\ C6_WellFormed(last.body, 0, 1)
     /\ \A i \in 1..Len(last.body.items[1]) : last.body.items[1][i].requestedQty[1].n > 0
     /\ ~C7_HasDuplicate(last.body))
    => /\ last.code = 201
       /\ last.request # None
       /\ LET doc == last.request[1]
              items == last.body.items[1]
          IN  /\ \E i \in 1..Len(requests) : requests[i] = doc
              /\ Len(doc.items) = Len(items)
              /\ \A j \in 1..Len(doc.items) :
                    /\ doc.items[j].productId = Trim(items[j].productId[1])
                    /\ doc.items[j].requestedQty = items[j].requestedQty[1]
                    /\ doc.items[j].vendorPrice = None
                    /\ doc.items[j].vendorRemark = None
              /\ doc.status = "pending"
              /\ doc.submittedAt = None
              /\ FindByToken(doc.token) = Some(doc)

\* C7: a creation payload (otherwise well-formed, every requestedQty at least
\* 1) in which two items have the same (productId, variantId) pair as stored
\* is answered 400 with the duplicate-item message, and no request is
\* persisted.
C7_DuplicateAnswered400 ==
    [][(/\ last'.op = "create"
        /\ C6_WellFormed(last'.body, MinRequestedQty, 1)
        /\ C7_HasDuplicate(last'.body))
       => (/\ last'.code = 400
           /\ last'.msg = "Duplicate product/variant combinations are not allowed"
           /\ requests' = requests)]_vars

\* C8: getMultiItemQuoteByToken answers 404 when no request has the token, 410
\* 'submitted' when the request is submitted (expired or not), 410 'expired'
\* when it is expired and not submitted, and 200 with the request otherwise.
C8_GetByToken ==
    last.op = "get" =>
       LET found == FindByToken(last.token) IN
       IF found = None
       THEN last.code = 404
       ELSE IF found[1].status = "submitted"
       THEN last.code = 410 /\ last.msg = "submitted"
       ELSE IF found[1].tokenExpiresAt <= now
       THEN last.code = 410 /\ last.msg = "expired"
       ELSE last.code = 200 /\ last.request = found

\* C8 happens: a request that is submitted and expired is answered 410
\* 'submitted'
C8_Witness ==
    /\ last.op = "get"
    /\ last.code = 410
    /\ last.msg = "submitted"
    /\ FindByToken(last.token) # None
    /\ FindByToken(last.token)[1].tokenExpiresAt <= now

-----------------------------------------------------------------------------
(* Properties of the items of a submission *)

\* the call of the single vendor answers in this step
C9_Answers == calls[1].pc \in {"found", "saving"} /\ calls'[1].pc = "idle"

\* C9: a successful submit sets vendorPrice and vendorRemark on exactly the
\* stored items whose key is in the payload and leaves every other stored item
\* as it was (its vendorPrice null when it was null).
C9_SubsetFrame ==
    [][(C9_Answers /\ last'.code = 200) =>
          LET i == IndexOf(calls[1].upd[1].id)
              payload == calls[1].items[1]
          IN  /\ Len(requests'[i].items) = Len(requests[i].items)
              /\ \A j \in 1..Len(requests[i].items) :
                    IF \E k \in 1..Len(payload) :
                          SubmittedKey(payload[k]) = StoredKey(requests[i].items[j])
                    THEN /\ requests'[i].items[j].vendorPrice # None
                         /\ \E k \in 1..Len(payload) :
                               /\ SubmittedKey(payload[k]) = StoredKey(requests[i].items[j])
                               /\ requests'[i].items[j].vendorPrice
                                     = Some(payload[k].vendorPrice.n)
                         /\ requests'[i].items[j].productId = requests[i].items[j].productId
                         /\ requests'[i].items[j].variantId = requests[i].items[j].variantId
                         /\ requests'[i].items[j].requestedQty
                               = requests[i].items[j].requestedQty
                    ELSE requests'[i].items[j] = requests[i].items[j]]_vars

\* C9 happens: a submit naming one of two stored items has answered 200; the
\* named item is priced and the other one is not
C9_Witness ==
    /\ last.op = "submit"
    /\ last.code = 200
    /\ Len(last.items[1]) = 1
    /\ \E i \in 1..Len(requests) :
          /\ requests[i].token = last.token
          /\ \E j, k \in 1..Len(requests[i].items) :
                /\ requests[i].items[j].vendorPrice = Some(last.items[1][1].vendorPrice.n)
                /\ requests[i].items[k].vendorPrice = None

\* the price is 0, negative, missing or not a finite number
C10_BadPrice(it) == it.vendorPrice.kind # "number" \/ it.vendorPrice.n <= 0

\* C10: for a valid token, a payload with an item whose vendorPrice is 0,
\* negative, missing or not a finite number is answered 400 and the stored
\* requests stay as they are; a payload whose every item has a productId and a
\* strictly positive vendorPrice is accepted: the call goes on to save() and
\* answers 200.
C10_PriceGate ==
    [][/\ (/\ calls[1].pc = "found"
           /\ calls'[1].pc # "found"
           /\ calls[1].snap # None
           /\ calls[1].snap[1].status # "submitted"
           /\ calls[1].snap[1].tokenExpiresAt > now)
          => LET payload == calls[1].items[1] IN
             /\ (\E k \in 1..Len(payload) : C10_BadPrice(payload[k]))
                => (/\ last'.op = "submit"
                    /\ last'.code = 400
                    /\ requests' = requests)
             /\ (\A k \in 1..Len(payload) :
                    Truthy(payload[k].productId) /\ ~C10_BadPrice(payload[k]))
                => calls'[1].pc = "saving"
       /\ (calls[1].pc = "saving" /\ calls'[1].pc = "idle")
          => (last'.op = "submit" /\ last'.code = 200)]_vars

\* C10 happens: a payload with a price of 0 next to a good one has been
\* answered 400 on a request that is pending and unexpired, no price stored
C10_Witness ==
    /\ last.op = "submit"
    /\ last.code = 400
    /\ last.msg = "vendorPrice must be greater than 0"
    /\ \E k \in 1..Len(last.items[1]) :
          last.items[1][k].vendorPrice.kind = "number" /\ last.items[1][k].vendorPrice.n = 0
    /\ \E i \in 1..Len(requests) :
          /\ requests[i].token = last.token
          /\ requests[i].status = "pending"
          /\ requests[i].tokenExpiresAt > now
          /\ \A j \in 1..Len(requests[i].items) : requests[i].items[j].vendorPrice = None

-----------------------------------------------------------------------------
(* Properties of the expiry and of the status *)

C12_SubmittedOnlyBySubmit ==
    [][\A i \in 1..Len(requests) :
          (requests[i].status = "pending" /\ requests'[i].status = "submitted")
          => (/\ last'.op = "submit"
              /\ last'.code = 200
              /\ last'.token = requests[i].token)]_vars

\* C13: a status update with a status of the enumeration and the id of a
\* stored request succeeds whatever the current status, sets the status and
\* leaves every other field of the request and every other request as they
\* were; with a missing status or one outside the enumeration it answers 400;
\* with a well-formed id that names no request it answers 404; nothing is
\* changed in these two cases.
C13_PatchFrame ==
    [][last'.op = "patch" =>
          IF last'.arg \notin Statuses
          THEN last'.code = 400 /\ last'.msg = "Invalid status" /\ requests' = requests
          ELSE IF \E i \in 1..Len(requests) :
                     last'.id.hex24 /\ requests[i].id = last'.id.id
          THEN /\ last'.code = 200
               /\ Len(requests') = Len(requests)
               /\ \A i \in 1..Len(requests) :
                     IF requests[i].id = last'.id.id
                     THEN /\ requests'[i].status = last'.arg
                          /\ requests'[i].items = requests[i].items
                          /\ requests'[i].token = requests[i].token
                          /\ requests'[i].tokenExpiresAt = requests[i].tokenExpiresAt
                          /\ requests'[i].submittedAt = requests[i].submittedAt
                          /\ requests'[i].orderId = requests[i].orderId
                     ELSE requests'[i] = requests[i]
          ELSE /\ requests' = requests
               /\ last'.id.hex24 => last'.code = 404]_vars

\* C13 happens: a submitted request has been set back to pending by a status
\* update; its submittedAt and its prices are still there
C13_Witness ==
    /\ last.op = "patch"
    /\ last.code = 200
    /\ last.arg = "pending"
    /\ \E i \in 1..Len(requests) :
          /\ requests[i].id = last.id.id
          /\ requests[i].status = "pending"
          /\ requests[i].submittedAt # None
          /\ \E j \in 1..Len(requests[i].items) : requests[i].items[j].vendorPrice # None

\* C14: the token of a request is fixed at creation and unique: no step of
\* create, get, submit or status update changes the token of a stored request,
\* and no two stored requests share a token.
C14_TokenFixedAndUnique ==
    [][/\ \A i \in 1..Len(requests) : requests'[i].token = requests[i].token
       /\ \A i, j \in 1..Len(requests') :
             i # j => requests'[i].token # requests'[j].token]_vars

\* C14 happens: two requests are stored under different tokens; the first one
\* was submitted by the vendor and then set to accepted by the admin, and a
\* lookup by its token has just been answered
C14_Witness ==
    /\ Len(requests) = 2
    /\ requests[1].submittedAt # None
    /\ requests[1].status = "accepted"
    /\ requests[1].token # requests[2].token
    /\ last.op = "get"
    /\ last.code = 410
    /\ last.token = requests[1].token

-----------------------------------------------------------------------------
(* Properties of the legacy quotes *)

\* the quotes of one IP whose submittedAt lies within the last hour
C15_InWindow(ip) ==
    {i \in 1..Len(quotes) :
        quotes[i].ipAddress = ip /\ now - quotes[i].submittedAt <= RateWindowMinutes}

\* a payload that passes the validators, the controller's checks and the schema
C15_Valid(body) ==
    /\ CheckQuoteBody(SanitizeQuoteBody(body)) = "ok"
    /\ EmailMatchesSchema(body.vendorEmail[1])

\* C15 as stated: while fewer than 5 quotes of the IP lie in the window a
\* valid submission answers 201 and persists a quote; while 5 do, every
\* submission of that IP answers 429 with a positive retryAfter and persists
\* nothing.
C15_EveryFurtherAnswered429 ==
    [][last'.op = "submitQuote"
       => LET n == Cardinality(C15_InWindow(last'.arg)) IN
          /\ (n < RateLimitThreshold /\ C15_Valid(last'.body))
             => (last'.code = 201 /\ Len(quotes') = Len(quotes) + 1)
          /\ n >= RateLimitThreshold
             => (/\ last'.code = 429
                 /\ last'.request[1].retryAfter > 0
                 /\ quotes' = quotes)]_vars

\* C15 amended: while fewer than 5 quotes of the IP lie in the window a valid
\* submission answers 201 and appends one pending quote of that IP stamped
\* with the current time. While 5 do, no submission of that IP persists
\* anything: a valid one answers 429 with a positive retryAfter, and one that
\* fails validation answers 400, validation coming before the count. A 429 is
\* answered only while 5 quotes of the IP lie in the window.
C15_RateLimit ==
    [][last'.op = "submitQuote"
       => LET n == Cardinality(C15_InWindow(last'.arg)) IN
          /\ (n < RateLimitThreshold /\ C15_Valid(last'.body))
             => (/\ last'.code = 201
                 /\ Len(quotes') = Len(quotes) + 1
                 /\ SubSeq(quotes', 1, Len(quotes)) = quotes
                 /\ quotes'[Len(quotes')].ipAddress = last'.arg
                 /\ quotes'[Len(quotes')].submittedAt = now
                 /\ quotes'[Len(quotes')].status = "pending")
          /\ n >= RateLimitThreshold
             => (/\ quotes' = quotes
                 /\ last'.code \in {400, 429}
                 /\ C15_Valid(last'.body)
                    => (last'.code = 429 /\ last'.request[1].retryAfter > 0)
                 /\ last'.code = 400
                    => CheckQuoteBody(SanitizeQuoteBody(last'.body)) # "ok")
          /\ last'.code = 429 => n >= RateLimitThreshold]_vars

\* a valid submission has been answered 429 while exactly 5 quotes of its IP
\* lie in the window, the oldest of them exactly one hour old, and a quote of
\* another IP lies in the window too
C15_Witness ==
    /\ last.op = "submitQuote"
    /\ last.code = 429
    /\ C15_Valid(last.body)
    /\ last.request[1].retryAfter > 0
    /\ Cardinality(C15_InWindow(last.arg)) = RateLimitThreshold
    /\ \E i \in C15_InWindow(last.arg) : quotes[i].submittedAt + RateWindowMinutes = now
    /\ \E i \in 1..Len(quotes) :
          quotes[i].ipAddress # last.arg /\ now - quotes[i].submittedAt <= RateWindowMinutes

-----------------------------------------------------------------------------
(* Properties of the grouped listing *)

\* the stored requests of one order
C16_RequestsOf(orderId) == {i \in 1..Len(requests) : requests[i].orderId = orderId}

\* the product and variant of a line item, an absent variant being the empty one
C16_Pair(item) == <<item.productId, OrEmpty(item.variantId)>>

\* the product/variant pairs that occur in the requests of one order
C16_PairsOf(orderId) ==
    UNION {{C16_Pair(requests[i].items[j]) : j \in 1..Len(requests[i].items)} :
              i \in C16_RequestsOf(orderId)}

\* the requests of an order that hold a line item of the given pair
C16_Holders(orderId, pair) ==
    {i \in C16_RequestsOf(orderId) :
        \E j \in 1..Len(requests[i].items) : C16_Pair(requests[i].items[j]) = pair}

\* C16: the result of GET /vendor-quotes has exactly one entry per distinct
\* orderId of the stored requests; an order's entry has exactly one product
\* entry per distinct (productId, variantId) pair of its requests, and that
\* product's vendorQuotes has exactly one element for each request of the
\* order that holds the pair.
C16_OneEntryPerOrderAndProduct ==
    [][last'.op = "list"
       => LET result == last'.request[1] IN
          /\ Len(result) = Cardinality({requests[i].orderId : i \in 1..Len(requests)})
          /\ \A i \in 1..Len(requests) :
                \E k \in 1..Len(result) : result[k].orderId = requests[i].orderId
          /\ \A k \in 1..Len(result) :
                LET products == result[k].products
                    pairs == C16_PairsOf(result[k].orderId)
                IN  /\ Len(products) = Cardinality(pairs)
                    /\ \A pair \in pairs :
                          \E j \in 1..Len(products) :
                             LET vendorQuotes == products[j].vendorQuotes
                                 holders == C16_Holders(result[k].orderId, pair)
                             IN  /\ products[j].productId = pair[1]
                                 /\ Len(vendorQuotes) = Cardinality(holders)
                                 /\ {vendorQuotes[m].requestId : m \in 1..Len(vendorQuotes)}
                                       = {requests[i].id : i \in holders}]_vars

\* C17: in the result of GET /vendor-quotes every order entry's createdAt is
\* the greatest createdAt of the stored requests of that order, and the
\* entry's id is the id of a request of the order with that createdAt.
C17_NewestWins ==
    [][last'.op = "list"
       => LET result == last'.request[1] IN
          \A k \in 1..Len(result) :
             LET reqs == C16_RequestsOf(result[k].orderId) IN
             /\ \A i \in reqs : requests[i].createdAt <= result[k].createdAt
             /\ \E i \in reqs :
                   /\ requests[i].createdAt = result[k].createdAt
                   /\ requests[i].id = result[k].id]_vars

\* a listing in which one order has requests created at different times, and
\* another request as old as the newest of them exists
C17_Witness ==
    /\ last.op = "list"
    /\ \E k \in 1..Len(last.request[1]) :
          LET entry == last.request[1][k]
              reqs == C16_RequestsOf(entry.orderId)
          IN  /\ \E i \in reqs : requests[i].createdAt < entry.createdAt
              /\ \E i \in reqs : requests[i].id = entry.id /\ requests[i].createdAt = entry.createdAt
              /\ \E i \in 1..Len(requests) :
                    requests[i].id # entry.id /\ requests[i].createdAt = entry.createdAt

-----------------------------------------------------------------------------
(* Properties of the lookup by id *)

\* C18: GET /vendor-quotes/:id with a well-formed id answers quoteType
\* 'multi' and that request when the id is that of a stored quote request,
\* whatever the legacy quotes hold; quoteType 'single' and that quote when it
\* is not but is the id of a stored legacy quote; and 404 when it is the id of
\* neither.
C18_QuoteType ==
    [][(last'.op = "getById" /\ last'.id.hex24)
       => LET id == last'.id.id
              isRequest == \E i \in 1..Len(requests) : requests[i].id = id
              isLegacy == \E i \in 1..Len(quotes) : quotes[i].id = id
          IN  /\ isRequest
                 => (/\ last'.code = 200
                     /\ last'.request[1].quoteType = "multi"
                     /\ last'.request[1].id = id)
              /\ (~isRequest /\ isLegacy)
                 => (/\ last'.code = 200
                     /\ last'.request[1].quoteType = "single"
                     /\ last'.request[1].id = id)
              /\ (~isRequest /\ ~isLegacy) => last'.code = 404]_vars

\* the id of a legacy quote submitted after a quote request was created has
\* been answered as 'single', both collections holding documents
C18_Witness ==
    /\ last.op = "getById"
    /\ last.code = 200
    /\ last.request[1].quoteType = "single"
    /\ \E i \in 1..Len(quotes) : quotes[i].id = last.id.id
    /\ \E i \in 1..Len(requests) : requests[i].id < last.id.id
    /\ \E i \in 1..Len(requests) : requests[i].id > last.id.id

-----------------------------------------------------------------------------
(* Properties of the listing for an item *)

\* the stored quotes of the item that are not rejected
C19_Expected(itemId) ==
    {i \in 1..Len(quotes) : quotes[i].itemId = itemId /\ quotes[i].status # "rejected"}

\* what C19 states apart from the average: the answer holds exactly the stored
\* quotes of the item that are not rejected, each once, by ascending price;
\* total is their number and lowestPrice the least of their prices, null
\* when there are none
C19_ListingAndLowest(itemId, result) ==
    LET list == result.quotes
        expected == C19_Expected(itemId)
    IN  /\ Len(list) = Cardinality(expected)
        /\ {list[k].id : k \in 1..Len(list)} = {quotes[i].id : i \in expected}
        /\ \A k \in 1..Len(list) :
              list[k].quotedPrice = quotes[LegacyIndexOf(list[k].id)].quotedPrice
        /\ \A k \in 1..(Len(list) - 1) : list[k].quotedPrice <= list[k + 1].quotedPrice
        /\ result.stats.total = Len(list)
        /\ IF expected = {}
           THEN result.stats.lowestPrice = None /\ result.stats.averagePrice = None
           ELSE /\ result.stats.lowestPrice # None
                /\ \A i \in expected : result.stats.lowestPrice[1] <= quotes[i].quotedPrice
                /\ \E i \in expected : result.stats.lowestPrice[1] = quotes[i].quotedPrice
                /\ result.stats.averagePrice # None

\* the sum of the prices of the stored quotes S
RECURSIVE C19_Sum(_)
C19_Sum(S) ==
    IF S = {} THEN 0
    ELSE LET i == CHOOSE i \in S : TRUE IN quotes[i].quotedPrice + C19_Sum(S \ {i})

\* C19 as stated: the listing is as above and averagePrice is the mean of the
\* prices returned.
C19_AverageIsMean ==
    [][(last'.op = "getQuotesForItem" /\ last'.code = 200)
       => /\ C19_ListingAndLowest(last'.arg, last'.request[1])
          /\ C19_Expected(last'.arg) # {}
             => last'.request[1].stats.averagePrice[1].fixed
                   * Cardinality(C19_Expected(last'.arg))
                = C19_Sum(C19_Expected(last'.arg))]_vars

\* C19 amended: the listing is as above and averagePrice is the decimal string
\* of two decimals nearest to the mean of the prices returned, so that it
\* differs from the mean by at most half a hundredth.
C19_ItemListing ==
    [][(last'.op = "getQuotesForItem" /\ last'.code = 200)
       => /\ C19_ListingAndLowest(last'.arg, last'.request[1])
          /\ C19_Expected(last'.arg) # {}
             => LET n == Cardinality(C19_Expected(last'.arg))
                    sum == C19_Sum(C19_Expected(last'.arg))
                    fixed == last'.request[1].stats.averagePrice[1].fixed
                IN  /\ 2 * (fixed * n - sum) <= n
                    /\ 2 * (sum - fixed * n) <= n]_vars

\* an item with three stored quotes, one of them rejected and the other two of
\* different prices, has been listed while another item has a quote too
C19_Witness ==
    /\ last.op = "getQuotesForItem"
    /\ last.code = 200
    /\ Len(last.request[1].quotes) = 2
    /\ last.request[1].quotes[1].quotedPrice < last.request[1].quotes[2].quotedPrice
    /\ \E i \in 1..Len(quotes) : quotes[i].itemId = last.arg /\ quotes[i].status = "rejected"
    /\ last.request[1].stats.averagePrice # None

-----------------------------------------------------------------------------
(* Properties of the status of a legacy quote *)

C20_StatusOps == {"updateQuoteStatus", "bulkUpdateStatus", "putAdminQuote", "updateStatus"}

\* the quotes a status operation names: the one of the route's parameter, or
\* those of the array of a bulk update
C20_Targets(response) ==
    IF response.op = "bulkUpdateStatus"
    THEN {i \in 1..Len(quotes) :
             \E k \in 1..Len(response.arg[1]) : response.arg[1][k].id = quotes[i].id}
    ELSE {i \in 1..Len(quotes) : quotes[i].id = response.arg.id}

\* C20: after every step the status of every stored legacy quote is one of
\* pending, reviewed, accepted, rejected; a status update with a value outside
\* that enumeration is refused (400, or 'Invalid status value') and leaves the
\* quotes unchanged; an accepted status update sets the status and
\* lastModifiedAt of the quotes it names.
C20_StatusInEnumeration ==
    [][/\ \A i \in 1..Len(quotes') : quotes'[i].status \in LegacyStatuses
       /\ (/\ last'.op \in C20_StatusOps
           /\ last'.body.status # None
           /\ last'.body.status[1] \notin LegacyStatuses)
          => (/\ quotes' = quotes
              /\ last'.code = 400 \/ last'.msg = "Invalid status value")
       /\ (last'.op \in C20_StatusOps /\ last'.code = 200)
          => \A i \in C20_Targets(last') :
                /\ quotes'[i].status = last'.body.status[1]
                /\ quotes'[i].lastModifiedAt = Some(now)]_vars

-----------------------------------------------------------------------------
(* Properties of the answers to invalid input *)

\* a creation payload the claim names as invalid: no items, an item without
\* a productId, or an item whose requestedQty is missing or less than 1
C21_InvalidItems(body) ==
    \/ body.items = None
    \/ body.items[1] = <<>>
    \/ \E i \in 1..Len(body.items[1]) :
          LET item == body.items[1][i] IN
          \/ item.productId = None
          \/ Trim(item.productId[1]) = <<>>
          \/ item.requestedQty = None
          \/ item.requestedQty[1].n < item.requestedQty[1].d

\* C21: a creation that is refused is answered 400, never 500, and changes
\* neither collection; a creation with an empty items array, an item without
\* productId or an item whose requestedQty is not at least 1 is refused.
C21_InvalidAnswered400 ==
    [][last'.op = "create"
       => /\ last'.code \in {201, 400}
          /\ last'.code = 400 => (requests' = requests /\ quotes' = quotes)
          /\ C21_InvalidItems(last'.body)
             => (last'.code = 400 /\ requests' = requests /\ quotes' = quotes)]_vars

-----------------------------------------------------------------------------
(* Properties of the items of a request *)

\* the product and variant of a stored item, an absent variant being the
\* empty one
C22_Pair(item) == <<item.productId, OrEmpty(item.variantId)>>

\* C22: after every step the (productId, variantId) pairs of the items of
\* each stored request are pairwise distinct, and no step on a stored request,
\* a submission included, adds, removes or reorders its items or changes an
\* item's productId, variantId or requestedQty.
C22_KeysDistinctAndFixed ==
    [][/\ \A i \in 1..Len(requests') :
             \A j, k \in 1..Len(requests'[i].items) :
                j < k => C22_Pair(requests'[i].items[j]) # C22_Pair(requests'[i].items[k])
       /\ \A i \in 1..Len(requests) :
             /\ Len(requests'[i].items) = Len(requests[i].items)
             /\ \A j \in 1..Len(requests[i].items) :
                   /\ requests'[i].items[j].productId = requests[i].items[j].productId
                   /\ requests'[i].items[j].variantId = requests[i].items[j].variantId
                   /\ requests'[i].items[j].requestedQty
                         = requests[i].items[j].requestedQty]_vars

\* a submission has been accepted for a request that holds two variants of
\* one product, and both have their price
C22_Witness ==
    /\ last.op = "submit"
    /\ last.code = 200
    /\ \E i \in 1..Len(requests) :
          /\ requests[i].status = "submitted"
          /\ Len(requests[i].items) = 2
          /\ requests[i].items[1].productId = requests[i].items[2].productId
          /\ requests[i].items[1].vendorPrice # None
          /\ requests[i].items[2].vendorPrice # None

-----------------------------------------------------------------------------
(* Properties of the basket lookup *)

\* what the caller supplied for a product field, as it is stored: null when
\* it is missing or empty, trimmed otherwise
C23_Supplied(field) == IF field = None \/ field[1] = <<>> THEN None ELSE Some(Trim(field[1]))

\* C23: a valid submitQuote below the rate limit answers 201 and appends
\* exactly one pending quote whatever the basket lookup does, and leaves the
\* basket collection as it is. The stored productName and productImage are
\* the caller's when the basket holds no item of that id, and otherwise either
\* the caller's (the lookup failed, or the item has no value) or the item's.
C23_LookupIndependent ==
    [][(/\ last'.op = "submitQuote"
        /\ C15_Valid(last'.body)
        /\ Cardinality(C15_InWindow(last'.arg)) < RateLimitThreshold)
       => /\ last'.code = 201
          /\ basket' = basket
          /\ Len(quotes') = Len(quotes) + 1
          /\ SubSeq(quotes', 1, Len(quotes)) = quotes
          /\ LET quote == quotes'[Len(quotes')]
                 items == {b \in basket : b.id = quote.itemId}
             IN  /\ quote.status = "pending"
                 /\ \/ quote.productName = C23_Supplied(last'.body.productName)
                    \/ \E b \in items : quote.productName = b.productName
                 /\ \/ quote.productImage = C23_Supplied(last'.body.productImage)
                    \/ \E b \in items : b.productImage # None
                                          /\ quote.productImage = b.productImage]_vars

\* a quote has been stored with the caller's product name and image although
\* the basket holds the item with a name and an image of its own (the lookup
\* failed), after a quote for an item the basket does not hold
C23_Witness ==
    /\ last.op = "submitQuote"
    /\ last.code = 201
    /\ Len(quotes) = 2
    /\ \A b \in basket : b.id # quotes[1].itemId
    /\ \E b \in basket :
          /\ b.id = quotes[2].itemId
          /\ b.productImage # None
          /\ quotes[2].productName # None
          /\ quotes[2].productName # b.productName
          /\ quotes[2].productImage # None
          /\ quotes[2].productImage # b.productImage

-----------------------------------------------------------------------------
(* Properties of the totals *)

\* the sum, over the items of the set S of positions that have a price, of
\* vendorPrice x requestedQty
RECURSIVE C24_Sum(_, _)
C24_Sum(items, S) ==
    IF S = {} THEN Rat(0)
    ELSE LET j == CHOOSE j \in S : TRUE
             rest == C24_Sum(items, S \ {j})
         IN  IF items[j].vendorPrice = None THEN rest
             ELSE RatAdd([n |-> items[j].vendorPrice[1] * items[j].requestedQty.n,
                          d |-> items[j].requestedQty.d], rest)

\* the sum of the totalPrice fields of products[] over the positions S
RECURSIVE C24_SumOfTotalPrices(_, _)
C24_SumOfTotalPrices(products, S) ==
    IF S = {} THEN Rat(0)
    ELSE LET j == CHOOSE j \in S : TRUE IN
         RatAdd(products[j].totalPrice, C24_SumOfTotalPrices(products, S \ {j}))

\* the stored request of the given id
C24_Stored(id) == requests[CHOOSE i \in 1..Len(requests) : requests[i].id = id]

\* C24: the totalAmount GET /vendor-quotes/:id reports for a stored request
\* is the sum over its priced items of vendorPrice x requestedQty and the sum
\* of the totalPrice fields of products[] in the same answer; the totalAmount
\* getAdminMultiItemQuotes reports for a request is that same sum; for a
\* legacy quote totalAmount is quotedPrice.
C24_TotalsAgree ==
    [][/\ (last'.op = "getById" /\ last'.code = 200 /\ last'.request[1].quoteType = "multi")
          => LET answer == last'.request[1]
                 items == C24_Stored(answer.id).items
             IN  /\ RatEq(answer.totalAmount, C24_Sum(items, 1..Len(items)))
                 /\ RatEq(answer.totalAmount,
                          C24_SumOfTotalPrices(answer.products, 1..Len(answer.products)))
       /\ (last'.op = "getById" /\ last'.code = 200 /\ last'.request[1].quoteType = "single")
          => \E i \in 1..Len(quotes) :
                /\ quotes[i].id = last'.request[1].id
                /\ RatEq(last'.request[1].totalAmount, Rat(quotes[i].quotedPrice))
       /\ last'.op = "adminList"
          => \A k \in 1..Len(last'.request[1].requests) :
                LET entry == last'.request[1].requests[k]
                    items == C24_Stored(entry.id).items
                IN  RatEq(entry.totalAmount, C24_Sum(items, 1..Len(items)))]_vars

\* the request of one and a half of p at 5 and two of q at 7 has been
\* answered with a total of 21.5, another request having one item priced only
C24_Witness ==
    /\ last.op = "getById"
    /\ last.code = 200
    /\ last.request[1].quoteType = "multi"
    /\ RatEq(last.request[1].totalAmount, [n |-> 43, d |-> 2])
    /\ \E i \in 1..Len(requests) :
          /\ requests[i].items[1].vendorPrice # None
          /\ requests[i].items[2].vendorPrice = None

-----------------------------------------------------------------------------
(* Properties of the stored status, prices and submission time *)

\* C25: in every reachable state a stored request whose status is pending
\* has a null vendorPrice on every item.
C25_PendingHasNoPrice ==
    \A i \in 1..Len(requests) :
        requests[i].status = "pending"
        => \A j \in 1..Len(requests[i].items) : requests[i].items[j].vendorPrice = None

\* C26: in every reachable state a stored request whose status is submitted
\* has a submittedAt, and a stored request without a submittedAt has a null
\* vendorPrice on every item.
C26_SubmittedHasTime ==
    \A i \in 1..Len(requests) :
        /\ requests[i].status = "submitted" => requests[i].submittedAt # None
        /\ requests[i].submittedAt = None
           => \A j \in 1..Len(requests[i].items) : requests[i].items[j].vendorPrice = None

-----------------------------------------------------------------------------
(* Properties of the rate limit under concurrency *)

\* C27: in every reachable state, for every IP and every window of one hour
\* that ends at the submittedAt of one of its quotes, at most 5 stored quotes
\* of that IP have their submittedAt in the window.
C27_WindowWithinThreshold ==
    \A i \in 1..Len(quotes) :
        Cardinality({j \in 1..Len(quotes) :
                        /\ quotes[j].ipAddress = quotes[i].ipAddress
                        /\ quotes[j].submittedAt <= quotes[i].submittedAt
                        /\ quotes[i].submittedAt - quotes[j].submittedAt <= RateWindowMinutes})
            <= RateLimitThreshold

-----------------------------------------------------------------------------
(* Properties of the two token gates *)

\* status != 'submitted' and tokenExpiresAt > t
C28_Valid(doc, t) == doc.status # "submitted" /\ doc.tokenExpiresAt > t

\* C28: getMultiItemQuoteByToken answers 404 exactly for the tokens no request
\* has, and 200 exactly when the request of the token is not submitted and
\* not expired at that time; submitMultiItemQuote with a non-empty items array
\* answers 404 exactly when it found no request, 410 exactly when the request
\* it found is submitted or expired at the time of its gate, goes on to save
\* exactly when the request is neither and the payload is well-formed, and
\* that save is accepted with 200.
C28_GatesAgree ==
    [][/\ last'.op = "get"
          => LET found == FindByToken(last'.token) IN
             /\ last'.code \in {200, 404, 410}
             /\ last'.code = 404 <=> found = None
             /\ last'.code = 200 <=> (found # None /\ C28_Valid(found[1], now))
       /\ (calls[1].pc = "found" /\ calls'[1].pc # "found")
          => LET snap == calls[1].snap IN
             /\ last'.code = 404 <=> snap = None
             /\ last'.code = 410 <=> (snap # None /\ ~C28_Valid(snap[1], now))
             /\ calls'[1].pc = "saving"
                <=> (/\ snap # None
                     /\ C28_Valid(snap[1], now)
                     /\ CheckSubmitItems(calls[1].items[1], 1) = "ok")
       /\ (calls[1].pc = "saving" /\ calls'[1].pc # "saving")
          => last'.code = 200]_vars

\* a submission has been answered 410 'expired' for a pending request at the
\* very minute of its expiry
C28_Witness ==
    /\ last.op = "submit"
    /\ last.code = 410
    /\ last.msg = "Quote request has expired"
    /\ \E i \in 1..Len(requests) :
          /\ requests[i].token = last.token
          /\ requests[i].status = "pending"
          /\ requests[i].tokenExpiresAt = now

-----------------------------------------------------------------------------
(* Properties of a submission that matches no item *)

\* the call about to save holds a payload none of whose items has the
\* productId::variantId key of an item of the stored request
C29_Unmatched ==
    /\ calls[1].pc = "saving"
    /\ LET stored == requests[IndexOf(calls[1].upd[1].id)]
           payload == calls[1].items[1]
       IN  \A k \in 1..Len(payload) :
              \A j \in 1..Len(stored.items) :
                 ItemKey(payload[k].productId[1], payload[k].variantId)
                    # ItemKey(stored.items[j].productId, stored.items[j].variantId)

-----------------------------------------------------------------------------
(* Properties of the in-memory tracker *)

\* the times of the entry of ip that lie within the last hour
C30_Recent(ip) ==
    IF ipSubmissionCache[ip] = None THEN <<>>
    ELSE RecentOf(ipSubmissionCache[ip][1], DateNow(now) - TrackerWindowMs)

\* C30, first part: no entry of the Map holds more than 50 times of the last
\* hour.
C30_WindowWithinThreshold ==
    \A ip \in IPs : Len(C30_Recent(ip)) <= TrackerThreshold

\* C30, second part: a request the tracker answers 429 leaves the Map as it
\* was and carries a retryAfter above 0.
C30_RefusedNotRecorded ==
    [][(last'.op = "track" /\ last'.code = 429)
       => /\ ipSubmissionCache' = ipSubmissionCache
          /\ last'.request[1].retryAfter > 0]_vars

\* the Map has an entry for ip, and every time in it is an hour old or older
C30_Stale(ip) ==
    /\ ipSubmissionCache[ip] # None
    /\ C30_Recent(ip) = <<>>

\* C30, third part: an entry of the Map whose times are all older than one
\* hour is eventually removed, or at the least stops being such an entry.
C30_StaleEventuallyRemoved ==
    \A ip \in IPs : C30_Stale(ip) ~> ~C30_Stale(ip)

====
